---- MODULE Spec2Model ----
(***************************************************************************)
(* A model of bit-scope's analysis pipeline (app/tools/analyze.py):        *)
(* load_market_data (four concurrent fetches, three table constructions),  *)
(* the four analysis branches run on worker threads, and the assembly of   *)
(* the report by analyze_blockchain_mareket.                               *)
(*                                                                         *)
(* Prices and volumes are integers.  A quantity the code computes in       *)
(* floating point is kept as an exact fraction <<n, d>> (d > 0) or as one  *)
(* of the IEEE values Inf / NaN, and is rounded where the code rounds.     *)
(***************************************************************************)
EXTENDS Integers, Sequences, FiniteSets, TLC

VARIABLES
    pc,       \* position of analyze_blockchain_mareket / load_market_data
    config,   \* the AnalysisConfig of the run
    fetch,    \* state of each of the four fetch coroutines
    raw,      \* the candle lists returned by the fetches
    quote,    \* the ticker returned by get_current_ticker
    conv,     \* how each table conversion ended (ok / fallback / failed)
    built,    \* the granularities whose table has been constructed
    table,    \* MarketData.{daily,minute,weekly}_df
    bpc,      \* position of each analysis branch
    df,       \* calculate_technical_signals' private copy of the daily table
    part,     \* the indicator results computed so far by that branch
    result,   \* the value each branch returned
    report,   \* the value analyze returned
    ref,      \* the report of a sequential run of the branches on the same data
    call,     \* a library function called on its own, with its arguments
    ret       \* what that call returned

vars == <<pc, config, fetch, raw, quote, conv, built, table, bpc, df, part,
          result, report, ref, call, ret>>

Fetches == {"daily", "minute", "weekly", "ticker"}
Grans == {"daily", "minute", "weekly"}
Branches == {"market_info", "trend_analysis", "price_levels", "technical_signals"}

(***************************************************************************)
(* Generic helpers.                                                        *)
(***************************************************************************)
Min2(a, b) == IF a <= b THEN a ELSE b
Max2(a, b) == IF a >= b THEN a ELSE b
Abs(x) == IF x < 0 THEN -x ELSE x

\* The last n elements of s (DataFrame.tail(n)).
TailN(s, n) ==
    IF n <= 0 THEN <<>>
    ELSE IF Len(s) <= n THEN s ELSE SubSeq(s, Len(s) - n + 1, Len(s))

RECURSIVE SumRange(_, _, _)
\* s[lo] + ... + s[hi], halving the range.
SumRange(s, lo, hi) ==
    IF lo > hi THEN 0
    ELSE IF lo = hi THEN s[lo]
    ELSE LET mid == (lo + hi) \div 2
         IN SumRange(s, lo, mid) + SumRange(s, mid + 1, hi)

SumSeq(s) == SumRange(s, 1, Len(s))

\* All sequences over S of length at most n.
SeqsUpTo(S, n) == UNION {[1..k -> S] : k \in 0..n}

\* The permutations of 1..n.
Perms(n) == {f \in [1..n -> 1..n] : \A i, j \in 1..n : f[i] = f[j] => i = j}

(***************************************************************************)
(* Candles.  ts is the value pd.to_datetime(errors='coerce') gives the     *)
(* candle_date_time_utc string: a positive instant, or NaT for a missing   *)
(* or unparseable string.                                                  *)
(***************************************************************************)
NaT == 0

Bar(ts, o, h, l, c, v, cr) ==
    [ts |-> ts, o |-> o, h |-> h, l |-> l, c |-> c, v |-> v, cr |-> cr]

Closes(t) == [i \in 1..Len(t) |-> t[i].c]
Stamps(t) == [i \in 1..Len(t) |-> t[i].ts]

(***************************************************************************)
(* safe_dataclass_to_dataframe.                                            *)
(***************************************************************************)
\* The positions of list holding a NaT, in input order, and the others.
NatIdx(list) == {i \in 1..Len(list) : list[i].ts = NaT}
ValidIdx(list) == {i \in 1..Len(list) : list[i].ts # NaT}

RECURSIVE SeqOfSet(_)
\* The elements of a set of integers in increasing order.
SeqOfSet(S) ==
    IF S = {} THEN <<>>
    ELSE LET m == CHOOSE x \in S : \A y \in S : x <= y
         IN <<m>> \o SeqOfSet(S \ {m})

RECURSIVE InsertByTs(_, _, _)
\* Insert index i into the index sequence idx (sorted by ts) after every
\* index whose ts is not greater: the stable order.
InsertByTs(list, idx, i) ==
    IF idx = <<>> THEN <<i>>
    ELSE IF list[Head(idx)].ts <= list[i].ts
         THEN <<Head(idx)>> \o InsertByTs(list, Tail(idx), i)
         ELSE <<i>> \o idx

RECURSIVE StableArgsort(_, _)
StableArgsort(list, todo) ==
    IF todo = <<>> THEN <<>>
    ELSE InsertByTs(list, StableArgsort(list, SubSeq(todo, 1, Len(todo) - 1)),
                    todo[Len(todo)])

HasTies(list) ==
    \E i, j \in ValidIdx(list) : i # j /\ list[i].ts = list[j].ts

\* na_position='first' instead: the NaT rows ahead of the valid ones.
ArgsortOutcomes_nafirst(list) ==
    {SeqOfSet(NatIdx(list)) \o StableArgsort(list, SeqOfSet(ValidIdx(list)))}

\* nargsort(kind='quicksort', na_position='last'): the valid rows ordered by
\* ts, then the NaT rows in input order.  quicksort is not stable: rows with
\* equal ts come out in an order the sort implementation chooses.
ArgsortOutcomes(list) ==
    LET valid == SeqOfSet(ValidIdx(list))
        nats == SeqOfSet(NatIdx(list))
        k == Len(valid)
    IN IF ~HasTies(list)
       THEN {StableArgsort(list, valid) \o nats}
       ELSE {[i \in 1..k |-> valid[p[i]]] \o nats :
                p \in {q \in Perms(k) :
                        \A i \in 1..(k - 1) :
                            list[valid[q[i]]].ts <= list[valid[q[i + 1]]].ts}}

\* The sort_values call left out: the rows stay in input order.
SortOutcomes_unsorted(list) == {list}

\* df.sort_values('candle_date_time_utc').reset_index(drop=True)
SortOutcomes(list) ==
    {[i \in 1..Len(list) |-> list[ix[i]]] : ix \in ArgsortOutcomes(list)}

ConvOutcomes == {"ok", "fallback", "failed"}

\* The asdict fallback left out: any exception gives an empty frame.
BuildOutcomes_nofallback(list, cv) ==
    IF list = <<>> \/ cv # "ok" THEN {<<>>}
    ELSE {[i \in 1..Len(list) |-> list[ix[i]]] :
             ix \in {StableArgsort(list, SeqOfSet(ValidIdx(list))) \o SeqOfSet(NatIdx(list))}}

\* cv = "ok": the __dict__ conversion returns; "fallback": it raises and the
\* asdict conversion returns; "failed": both raise and an empty frame is
\* returned.  An empty list returns an empty frame before any conversion.
BuildOutcomes(list, cv) ==
    IF list = <<>> THEN {<<>>}
    ELSE IF cv = "failed" THEN {<<>>}
    ELSE SortOutcomes(list)

(***************************************************************************)
(* Floating-point values.  A finite value is the fraction n/d (d > 0); the *)
(* code's numpy divisions by zero give Inf or NaN instead of raising.      *)
(***************************************************************************)
Num(n, d) == [k |-> "num", n |-> n, d |-> d]
Inf == [k |-> "inf", n |-> 1, d |-> 1]
NaN == [k |-> "nan", n |-> 0, d |-> 1]
IsNaN(x) == x.k = "nan"

\* x > t and x < t for an integer t; every comparison with NaN is false.
Gt(x, t) == \/ x.k = "inf" /\ x.n > 0
            \/ x.k = "num" /\ x.n > t * x.d
Lt(x, t) == \/ x.k = "inf" /\ x.n < 0
            \/ x.k = "num" /\ x.n < t * x.d

\* a*|x| + b for integers a > 0 and b.
AbsLin(x, a, b) ==
    IF x.k = "num" THEN Num(a * Abs(x.n) + b * x.d, x.d) ELSE x

\* b - a*|x|.
NegAbsLin(x, a, b) ==
    IF x.k = "num" THEN Num(b * x.d - a * Abs(x.n), x.d)
    ELSE IF x.k = "inf" THEN [k |-> "inf", n |-> -1, d |-> 1] ELSE x

\* Python's min(100, x): x only when x < 100, so 100 for NaN and +Inf.
MinHundred(x) == IF Lt(x, 100) THEN x ELSE Num(100, 1)

\* Python's round(): to the nearest integer, ties to the even one.
RoundHalfEven(n, d) ==
    LET q == n \div d
        r == n % d
    IN IF 2 * r < d THEN q
       ELSE IF 2 * r > d THEN q + 1
       ELSE IF q % 2 = 0 THEN q ELSE q + 1

\* int(): truncation toward zero.
Trunc(n, d) == IF n >= 0 THEN n \div d ELSE -((-n) \div d)

\* An optional value: None, or Some(x).
None == <<>>
Some(x) == <<x>>

(***************************************************************************)
(* Market Summary: calculate_market_info.                                  *)
(***************************************************************************)
VolumeWindow == 24
VolumeRows == 48
VolatilityRows == 30

\* A ticker timestamp that datetime.fromtimestamp cannot convert.
BadStamp == -1

calculate_volume_change_overlap(minute_df) ==
    IF Len(minute_df) < VolumeRows THEN 0
    ELSE LET vols == [i \in 1..Len(minute_df) |-> minute_df[i].v]
             n == Len(vols)
             recent_volume == SumSeq(TailN(vols, VolumeWindow))
             previous_volume == SumSeq(SubSeq(vols, n - VolumeRows + 2, n - VolumeWindow + 1))
         IN IF previous_volume > 0
            THEN RoundHalfEven((recent_volume - previous_volume) * 10000,
                               previous_volume)
            ELSE 0

\* calculate_volume_change, in hundredths of a percent.
calculate_volume_change(minute_df) ==
    IF Len(minute_df) < VolumeRows THEN 0
    ELSE LET vols == [i \in 1..Len(minute_df) |-> minute_df[i].v]
             n == Len(vols)
             recent_volume == SumSeq(TailN(vols, VolumeWindow))
             previous_volume ==
                 SumSeq(SubSeq(vols, n - VolumeRows + 1, n - VolumeWindow))
         IN IF previous_volume > 0
            THEN RoundHalfEven((recent_volume - previous_volume) * 10000,
                               previous_volume)
            ELSE 0

\* The (previous, today) close pairs whose log return enters the volatility.
ReturnPairs(recent) ==
    LET idx == {i \in 2..Len(recent) : recent[i - 1].c > 0}
        ord == SeqOfSet(idx)
    IN [j \in 1..Len(ord) |-> <<recent[ord[j] - 1].c, recent[ord[j]].c>>]

\* math.log raises ValueError for a ratio that is not positive.
LogRaises(pairs) == \E j \in 1..Len(pairs) : pairs[j][2] <= 0

\* calculate_daily_volatility.  The value is <<>> for 0.0 and otherwise the
\* return pairs whose standard deviation the code annualises: the square
\* root and logarithm themselves are not evaluated.
calculate_daily_volatility(daily_df) ==
    IF Len(daily_df) < VolatilityRows THEN <<>>
    ELSE LET pairs == ReturnPairs(TailN(daily_df, VolatilityRows))
         IN IF LogRaises(pairs) THEN <<>>
            ELSE IF pairs = <<>> THEN <<>>
            ELSE IF \A j \in 1..Len(pairs) :
                        pairs[j][2] * pairs[1][1] = pairs[1][2] * pairs[j][1]
                 THEN <<>>
                 ELSE pairs

\* datetime.fromtimestamp(ts / 1000, utc).strftime(...): whole seconds.
IsoSeconds(ts) == <<"utc", ts \div 1000>>

\* datetime.now().strftime(...): the wall clock when the handler runs.
ClockReadings == {<<"local", 7>>, <<"local", 8>>}

MarketInfoRaises(q) == q.ts = BadStamp

MarketInfoDefault(now) ==
    [current_price |-> 0, timestamp |-> now,
     volume_change_pct |-> 0, volatility |-> <<>>]

\* The values calculate_market_info can return.
calculate_market_info(tb, q) ==
    IF MarketInfoRaises(q)
    THEN {MarketInfoDefault(now) : now \in ClockReadings}
    ELSE {[current_price |-> q.price,
           timestamp |-> IsoSeconds(q.ts),
           volume_change_pct |-> calculate_volume_change(tb.minute),
           volatility |-> calculate_daily_volatility(tb.daily)]}

(***************************************************************************)
(* Trend Analyzer: calculate_trend_analysis.                               *)
(***************************************************************************)
ShortRows == 4
MediumRows == 7
LongRows == 8

\* ((end - start) / start) * 100 on numpy floats: Inf or NaN for start = 0.
PctChange(start, end) ==
    IF start # 0 THEN Num((end - start) * 100 * (IF start > 0 THEN 1 ELSE -1),
                          Abs(start))
    ELSE IF end > 0 THEN Inf
    ELSE IF end < 0 THEN [k |-> "inf", n |-> -1, d |-> 1]
    ELSE NaN

NeutralTrend_zero == [trend |-> "neutral", strength |-> Num(0, 1)]
NeutralTrend == [trend |-> "neutral", strength |-> Num(50, 1)]

\* The majority alone decides, whatever the sign of the change.
Classify_votes(price_change, up, down, limit, votes, a, b, c) ==
    IF Gt(price_change, limit) \/ up >= votes
    THEN [trend |-> "bullish",
          strength |-> MinHundred(AbsLin(price_change, a, up * b))]
    ELSE IF Lt(price_change, -limit) \/ down >= votes
    THEN [trend |-> "bearish",
          strength |-> MinHundred(AbsLin(price_change, a, down * b))]
    ELSE [trend |-> "neutral", strength |-> NegAbsLin(price_change, c, 50)]

\* The classification shared by the three horizons: limit is the tier in
\* percent, votes the majority needed, a and b the strength weights of
\* |change| and of the vote count, c the weight of |change| when neutral.
Classify(price_change, up, down, limit, votes, a, b, c) ==
    IF Gt(price_change, limit) \/ (up >= votes /\ Gt(price_change, 0))
    THEN [trend |-> "bullish",
          strength |-> MinHundred(AbsLin(price_change, a, up * b))]
    ELSE IF Lt(price_change, -limit) \/ (down >= votes /\ Lt(price_change, 0))
    THEN [trend |-> "bearish",
          strength |-> MinHundred(AbsLin(price_change, a, down * b))]
    ELSE [trend |-> "neutral", strength |-> NegAbsLin(price_change, c, 50)]

analyze_short_term_trend(hourly_df) ==
    IF Len(hourly_df) < 2 THEN NeutralTrend
    ELSE LET n == Len(hourly_df)
             up_count == Cardinality({i \in 1..n : hourly_df[i].c > hourly_df[i].o})
             price_change == PctChange(hourly_df[1].o, hourly_df[n].c)
         IN Classify(price_change, up_count, n - up_count, 1, 3, 15, 10, 10)

analyze_medium_term_trend_pairwise(daily_df) ==
    IF Len(daily_df) < 2 THEN NeutralTrend
    ELSE LET n == Len(daily_df)
             up_days == Cardinality({i \in 2..n : daily_df[i].c > daily_df[i - 1].c})
             price_change == PctChange(daily_df[1].c, daily_df[n].c)
         IN Classify(price_change, up_days, n - up_days, 4, 4, 5, 5, 3)
analyze_medium_term_trend(daily_df) ==
    IF Len(daily_df) < 2 THEN NeutralTrend
    ELSE LET n == Len(daily_df)
             up_days == Cardinality({i \in 1..n : daily_df[i].cr > 0})
             price_change == PctChange(daily_df[1].c, daily_df[n].c)
         IN Classify(price_change, up_days, n - up_days, 4, 4, 5, 5, 3)

analyze_long_term_trend(weekly_df) ==
    IF Len(weekly_df) < 2 THEN NeutralTrend
    ELSE LET n == Len(weekly_df)
             up_weeks == Cardinality({i \in 2..n : weekly_df[i].c > weekly_df[i - 1].c})
             price_change == PctChange(weekly_df[1].c, weekly_df[n].c)
         IN Classify(price_change, up_weeks, n - 1 - up_weeks, 8, 3, 2, 10, 1)

\* 0.2*s + 0.3*m + 0.5*l, NaN as soon as one of them is.
Weighted(s, m, l) ==
    IF IsNaN(s) \/ IsNaN(m) \/ IsNaN(l) THEN NaN
    ELSE IF s.k = "inf" \/ m.k = "inf" \/ l.k = "inf" THEN Inf
    ELSE Num(2 * s.n * m.d * l.d + 3 * m.n * s.d * l.d + 5 * l.n * s.d * m.d,
             10 * s.d * m.d * l.d)

AddInt(x, b) == IF x.k = "num" THEN Num(x.n + b * x.d, x.d) ELSE x

calculate_trend_strength_nobonus(short_term, medium_term, long_term) ==
    Weighted(short_term.strength, medium_term.strength, long_term.strength)

calculate_trend_strength(short_term, medium_term, long_term) ==
    LET weighted_strength ==
            Weighted(short_term.strength, medium_term.strength, long_term.strength)
    IN IF /\ short_term.trend = medium_term.trend
          /\ medium_term.trend = long_term.trend
          /\ short_term.trend # "neutral"
       THEN MinHundred(AddInt(weighted_strength, 15))
       ELSE IF /\ medium_term.trend = long_term.trend
               /\ medium_term.trend # "neutral"
       THEN MinHundred(AddInt(weighted_strength, 8))
       ELSE weighted_strength

RECURSIVE RunLength(_, _, _)
\* The loop of calculate_trend_duration from index i (1-based) down to 2.
RunLength(closes, i, up) ==
    IF i < 2 THEN 0
    ELSE IF (up /\ closes[i] > closes[i - 1]) \/ (~up /\ closes[i] < closes[i - 1])
         THEN 1 + RunLength(closes, i - 1, up)
         ELSE 0

calculate_trend_duration_rows(daily_df) ==
    LET closes == Closes(daily_df)
        n == Len(closes)
    IN IF n < 2 THEN 1
       ELSE IF closes[n] = closes[n - 1] THEN 1
       ELSE 2 + RunLength(closes, n - 1, closes[n] > closes[n - 1])

calculate_trend_duration(daily_df) ==
    LET closes == Closes(daily_df)
        n == Len(closes)
    IN IF n < 2 THEN 1
       ELSE IF closes[n] = closes[n - 1] THEN 1
       ELSE 1 + RunLength(closes, n - 1, closes[n] > closes[n - 1])

TrendDefault ==
    [short_term |-> "neutral", medium_term |-> "neutral", long_term |-> "neutral",
     trend_strength |-> 50, trend_duration_days |-> 1]

\* round(trend_strength) raises ValueError for NaN (and OverflowError for Inf).
TrendRaises(strength) == strength.k # "num"

TrendStrengthOf(tb) ==
    calculate_trend_strength(analyze_short_term_trend(TailN(tb.minute, ShortRows)),
                             analyze_medium_term_trend(TailN(tb.daily, MediumRows)),
                             analyze_long_term_trend(TailN(tb.weekly, LongRows)))

TrendAnalysisRaises(tb) == TrendRaises(TrendStrengthOf(tb))

calculate_trend_analysis(tb) ==
    LET short_term == analyze_short_term_trend(TailN(tb.minute, ShortRows))
        medium_term == analyze_medium_term_trend(TailN(tb.daily, MediumRows))
        long_term == analyze_long_term_trend(TailN(tb.weekly, LongRows))
        trend_strength == TrendStrengthOf(tb)
    IN IF TrendRaises(trend_strength) THEN TrendDefault
       ELSE [short_term |-> short_term.trend,
             medium_term |-> medium_term.trend,
             long_term |-> long_term.trend,
             trend_strength |-> RoundHalfEven(trend_strength.n, trend_strength.d),
             trend_duration_days |-> calculate_trend_duration(tb.daily)]

(***************************************************************************)
(* Level Analyzer: calculate_price_levels.                                 *)
(***************************************************************************)
LevelRows == 30
TestedRows == 5

RECURSIVE SortAsc(_)
\* list.sort() of a list of integers.
SortAsc(s) ==
    IF s = <<>> THEN <<>>
    ELSE LET i == CHOOSE i \in 1..Len(s) : \A j \in 1..Len(s) : s[i] <= s[j]
         IN <<s[i]>> \o SortAsc([j \in 1..(Len(s) - 1) |-> IF j < i THEN s[j] ELSE s[j + 1]])

Reverse(s) == [i \in 1..Len(s) |-> s[Len(s) + 1 - i]]

RECURSIVE Filter(_, _, _)
\* [x for x in s if x > p] (above) or [x for x in s if x < p].
Filter(s, p, above) ==
    IF s = <<>> THEN <<>>
    ELSE (IF (above /\ Head(s) > p) \/ (~above /\ Head(s) < p)
          THEN <<Head(s)>> ELSE <<>>) \o Filter(Tail(s), p, above)

\* Prices are floats; a price is counted in steps of 1/unit, and a level is
\* the fraction <<n, d>> before it is rounded.
Level(x, unit) == <<x * 100, 100 * unit>>
Synthetic(price, pct, unit) == <<price * pct, 100 * unit>>
RoundLevel(x) == RoundHalfEven(x[1], x[2])

FirstTwo(s) == SubSeq(s, 1, Min2(2, Len(s)))

\* The real candidates of each side, nearest first.
ResistanceCandidates(d, current_price) ==
    SortAsc(Filter([i \in 1..Len(d) |-> d[i].h], current_price, TRUE))
SupportCandidates_unfiltered(d, current_price) ==
    Reverse(SortAsc([i \in 1..Len(d) |-> d[i].l]))
SupportCandidates(d, current_price) ==
    Reverse(SortAsc(Filter([i \in 1..Len(d) |-> d[i].l], current_price, FALSE)))

calculate_support_resistance(d, current_price, unit) ==
    IF d = <<>>
    THEN [resistance |-> <<RoundLevel(Synthetic(current_price, 102, unit)),
                           RoundLevel(Synthetic(current_price, 104, unit))>>,
          support |-> <<RoundLevel(Synthetic(current_price, 98, unit)),
                        RoundLevel(Synthetic(current_price, 96, unit))>>]
    ELSE LET real_r == ResistanceCandidates(d, current_price)
             real_s == SupportCandidates(d, current_price)
             lift(s) == [i \in 1..Len(s) |-> Level(s[i], unit)]
             resistance_levels ==
                 IF Len(real_r) < 2
                 THEN lift(real_r) \o <<Synthetic(current_price, 102, unit),
                                        Synthetic(current_price, 104, unit)>>
                 ELSE lift(real_r)
             support_levels ==
                 IF Len(real_s) < 2
                 THEN lift(real_s) \o <<Synthetic(current_price, 98, unit),
                                        Synthetic(current_price, 96, unit)>>
                 ELSE lift(real_s)
             two(s) == [i \in 1..2 |-> RoundLevel(s[i])]
         IN [resistance |-> two(resistance_levels),
             support |-> two(support_levels)]

\* abs(level - x) / level < 0.005 for a level that is not zero.
Touches(level, x) == level > 0 /\ Abs(level - x) * 1000 < 5 * level

\* One inner loop of identify_last_tested_level over the levels of a side:
\* "hit" at the first level the value touches, "raise" when a level of 0 is
\* reached first (the row values are Python floats, so the division raises
\* ZeroDivisionError), "none" otherwise.
ScanLevels(levels, x) ==
    LET at == {i \in 1..Len(levels) : levels[i] = 0 \/ Touches(levels[i], x)}
    IN IF at = {} THEN "none"
       ELSE LET i == CHOOSE i \in at : \A j \in at : i <= j
            IN IF levels[i] = 0 THEN "raise" ELSE "hit"

RECURSIVE ScanTested(_, _, _)
\* The row loop of identify_last_tested_level: the side of the first row
\* that touches a level, resistance before support within a row.
ScanTested(rows, support_levels, resistance_levels) ==
    IF rows = <<>> THEN "none"
    ELSE LET r == ScanLevels(resistance_levels, Head(rows).h)
             s == ScanLevels(support_levels, Head(rows).l)
         IN IF r = "raise" THEN "raise"
            ELSE IF r = "hit" THEN "resistance"
            ELSE IF s = "raise" THEN "raise"
            ELSE IF s = "hit" THEN "support"
            ELSE ScanTested(Tail(rows), support_levels, resistance_levels)

identify_last_tested_level_newest(recent_df, support_levels, resistance_levels) ==
    IF recent_df = <<>> THEN "resistance"
    ELSE LET hit == ScanTested(Reverse(recent_df), support_levels, resistance_levels)
             n == Len(recent_df)
         IN IF hit # "none" THEN hit
            ELSE IF n >= 2
                 THEN (IF recent_df[n].c > recent_df[n - 1].c
                       THEN "resistance" ELSE "support")
                 ELSE "resistance"

identify_last_tested_level(recent_df, support_levels, resistance_levels) ==
    IF recent_df = <<>> THEN "resistance"
    ELSE LET hit == ScanTested(recent_df, support_levels, resistance_levels)
             n == Len(recent_df)
         IN IF hit # "none" THEN hit
            ELSE IF n >= 2
                 THEN (IF recent_df[n].c > recent_df[n - 1].c
                       THEN "resistance" ELSE "support")
                 ELSE "resistance"

PriceLevelsDefault ==
    [key_resistance |-> <<0, 0>>, key_support |-> <<0, 0>>,
     last_tested |-> "resistance",
     distance_to_resistance_pct |-> 0, distance_to_support_pct |-> 0]

\* The last-tested scan as calculate_price_levels calls it.
LastTestedOf(tb, q) ==
    LET daily_df == TailN(tb.daily, LevelRows)
        sr == calculate_support_resistance(daily_df, q.price, 1)
    IN identify_last_tested_level(TailN(daily_df, TestedRows), sr.support, sr.resistance)

\* The scan raises on a level of 0, and the distance computation divides by
\* the ticker price, a Python float: ZeroDivisionError for a price of 0.
PriceLevelsRaises(tb, q) == LastTestedOf(tb, q) = "raise" \/ q.price = 0

\* Distances are in hundredths of a percent.
calculate_price_levels(tb, q) ==
    IF PriceLevelsRaises(tb, q) THEN PriceLevelsDefault
    ELSE LET current_price == q.price
             daily_df == TailN(tb.daily, LevelRows)
             sr == calculate_support_resistance(daily_df, current_price, 1)
         IN [key_resistance |-> sr.resistance,
             key_support |-> sr.support,
             last_tested |-> LastTestedOf(tb, q),
             distance_to_resistance_pct |->
                 RoundHalfEven((sr.resistance[1] - current_price) * 10000, current_price),
             distance_to_support_pct |->
                 RoundHalfEven((current_price - sr.support[1]) * 10000, current_price)]

(***************************************************************************)
(* Indicator Library: calculate_technical_signals and its parts.           *)
(***************************************************************************)
CrossoverRows == 30

\* Series.rolling(window=w, min_periods=w).sum() at row i (1-based): None
\* until w rows exist.
RollingSum(xs, w, i) ==
    IF w < 1 \/ i < w \/ i > Len(xs) THEN None
    ELSE Some(SumSeq(SubSeq(xs, i - w + 1, i)))

\* round(ma) instead of int(ma).
MaValue_round(sum, w) == IF sum = <<>> THEN <<>> ELSE <<(2 * sum[1] + w) \div (2 * w)>>

\* int(ma) if not pd.isna(ma) else None
MaValue(sum, w) == IF sum = None THEN None ELSE Some(Trunc(sum[1], w))

\* current_price > ma; a comparison with NaN is false.
AboveMa(current_price, sum, w) == sum # None /\ current_price * w > sum[1]

MaEntry(closes, w) ==
    LET n == Len(closes)
        sum == RollingSum(closes, w, n)
        above == AboveMa(closes[n], sum, w)
    IN [window |-> w,
        value |-> MaValue(sum, w),
        position |-> IF above THEN "above" ELSE "below",
        signal |-> IF above THEN "bullish" ELSE "bearish"]

RECURSIVE CrossScan(_, _, _, _)
\* The loop of analyze_ma_crossovers for the 0-based index i down to 1: rows
\* i-1 and i are iloc positions counted from the oldest row.
CrossScan(closes, cfg, i, acc) ==
    IF i < 1 THEN acc
    ELSE LET ps == RollingSum(closes, cfg.ma_short, i)
             pm == RollingSum(closes, cfg.ma_medium, i)
             cs == RollingSum(closes, cfg.ma_short, i + 1)
             cm == RollingSum(closes, cfg.ma_medium, i + 1)
             days_ago == Len(closes) - 1 - i
             kind ==
                 IF ps = None \/ pm = None \/ cs = None \/ cm = None THEN "none"
                 ELSE IF /\ ps[1] * cfg.ma_medium <= pm[1] * cfg.ma_short
                         /\ cs[1] * cfg.ma_medium > cm[1] * cfg.ma_short
                 THEN "golden_cross"
                 ELSE IF /\ ps[1] * cfg.ma_medium >= pm[1] * cfg.ma_short
                         /\ cs[1] * cfg.ma_medium < cm[1] * cfg.ma_short
                 THEN "death_cross"
                 ELSE "none"
         IN CrossScan(closes, cfg, i - 1,
                      IF kind = "none" THEN acc
                      ELSE Append(acc, [type |-> kind, days_ago |-> days_ago]))

analyze_ma_crossovers(closes, cfg) ==
    LET lookback == Min2(CrossoverRows, Len(closes))
    IN IF lookback < 2 THEN <<>> ELSE CrossScan(closes, cfg, lookback - 1, <<>>)

MaInsufficient(w) ==
    [window |-> w, value |-> None, position |-> "below", signal |-> "bearish"]

calculate_moving_averages(rows, cfg) ==
    IF Len(rows) < cfg.ma_long
    THEN [ma_long |-> MaInsufficient(cfg.ma_long),
          ma_medium |-> MaInsufficient(cfg.ma_medium),
          ma_short |-> MaInsufficient(cfg.ma_short),
          ma_crossovers |-> <<>>]
    ELSE [ma_long |-> MaEntry(Closes(rows), cfg.ma_long),
          ma_medium |-> MaEntry(Closes(rows), cfg.ma_medium),
          ma_short |-> MaEntry(Closes(rows), cfg.ma_short),
          ma_crossovers |-> analyze_ma_crossovers(Closes(rows), cfg)]

\* gain = delta.where(delta > 0, 0) and loss = -delta.where(delta < 0, 0): the
\* first row, whose delta is NaN, counts as 0 in both.
Gains(closes) ==
    [i \in 1..Len(closes) |->
        IF i > 1 /\ closes[i] > closes[i - 1] THEN closes[i] - closes[i - 1] ELSE 0]
Losses(closes) ==
    [i \in 1..Len(closes) |->
        IF i > 1 /\ closes[i] < closes[i - 1] THEN closes[i - 1] - closes[i] ELSE 0]

\* rsi = 100 * rs instead of 100 - 100 / (1 + rs).
RsiOf_ratio(g, l) ==
    IF l = 0 THEN (IF g > 0 THEN [k |-> "num", n |-> 100, d |-> 1]
                   ELSE [k |-> "nan", n |-> 0, d |-> 1])
    ELSE [k |-> "num", n |-> 100 * g, d |-> l]

\* rs = avg_gain / avg_loss and rsi = 100 - 100 / (1 + rs), from the window
\* sums g and l: a zero loss divides to Inf (rsi 100) or, with no gain, NaN.
RsiOf(g, l) ==
    IF l = 0 THEN (IF g > 0 THEN Num(100, 1) ELSE NaN)
    ELSE Num(100 * g, g + l)

\* The rsi series at row i.
RsiAt(closes, period, i) ==
    LET g == RollingSum(Gains(closes), period, i)
        l == RollingSum(Losses(closes), period, i)
    IN IF g = None \/ l = None THEN NaN ELSE RsiOf(g[1], l[1])

\* a > b, a < b on rsi values.
FGt(a, b) == a.k = "num" /\ b.k = "num" /\ a.n * b.d > b.n * a.d

\* get_macd_trend: the histogram is a series of optional numbers, None where
\* the series is NaN.
get_macd_trend(histogram) ==
    LET n == Len(histogram)
    IN IF n < 2 THEN "neutral"
       ELSE LET current == histogram[n]
                previous == histogram[n - 1]
            IN IF current = None \/ previous = None THEN "neutral"
               ELSE IF Abs(current[1]) < Abs(previous[1]) THEN "converging"
               ELSE IF Abs(current[1]) > Abs(previous[1]) THEN "diverging"
               ELSE IF \/ current[1] > 0 /\ previous[1] <= 0
                       \/ current[1] < 0 /\ previous[1] >= 0
               THEN "crossover"
               ELSE "neutral"

\* What calculate_momentum returns for fewer than rsi_period rows, and from
\* its exception handler.
MomentumInsufficient ==
    [rsi |-> [value |-> None, zone |-> "neutral", trend |-> "neutral"],
     macd |-> [line |-> Some(0), signal |-> Some(0), histogram |-> Some(0),
               trend |-> "converging"],
     stochastic |-> [k |-> None, d |-> None, trend |-> "neutral", zone |-> "neutral"]]

\* The momentum entry of empty_technical_signals.
MomentumEmpty ==
    [rsi |-> [value |-> None, zone |-> "neutral", trend |-> "neutral"],
     macd |-> [line |-> None, signal |-> None, histogram |-> None, trend |-> "neutral"],
     stochastic |-> [k |-> None, d |-> None, trend |-> "neutral", zone |-> "neutral"]]

\* calculate_momentum: with enough rows, the RSI entry (value in tenths); the
\* exponential averages behind the MACD and Stochastic numbers of that branch
\* are not carried.
calculate_momentum(rows, cfg) ==
    IF Len(rows) < cfg.rsi_period THEN MomentumInsufficient
    ELSE LET closes == Closes(rows)
             n == Len(closes)
             current_rsi == RsiAt(closes, cfg.rsi_period, n)
             previous_rsi == IF n > 1 THEN RsiAt(closes, cfg.rsi_period, n - 1)
                             ELSE current_rsi
         IN [rsi |->
               [value |-> IF IsNaN(current_rsi) THEN None
                          ELSE Some(RoundHalfEven(current_rsi.n * 10, current_rsi.d)),
                zone |-> IF current_rsi.k = "num"
                            /\ current_rsi.n >= cfg.rsi_overbought * current_rsi.d
                         THEN "overbought"
                         ELSE IF current_rsi.k = "num"
                                 /\ current_rsi.n <= cfg.rsi_oversold * current_rsi.d
                         THEN "oversold" ELSE "neutral",
                trend |-> IF FGt(current_rsi, previous_rsi) THEN "rising"
                          ELSE IF FGt(previous_rsi, current_rsi) THEN "falling"
                          ELSE "neutral"]]

\* max(high - low, |high - prev_close|, |low - prev_close|); the first row
\* has no prev_close and max(axis=1) skips the two NaN.
TrueRange(rows) ==
    [i \in 1..Len(rows) |->
        IF i = 1 THEN rows[1].h - rows[1].l
        ELSE Max2(rows[i].h - rows[i].l,
                  Max2(Abs(rows[i].h - rows[i - 1].c), Abs(rows[i].l - rows[i - 1].c)))]

BbStd == 2

\* The last close c against the bands sma -/+ k*std of the last w closes
\* (std with ddof=1).  With S and Q the sums of the closes and of their
\* squares, a = w*c - S and v = w*Q - S*S, the position is 50 + x where
\* x = (50/k) * (c - sma)/std and (2x)^2 = 4n/d for n = 2500*a*a*(w-1) and
\* d = k*k*w*v.  The result is floor((2x)^2) and whether (2x)^2 is whole.
BandOffset(closes, w, k) ==
    LET win == TailN(closes, w)
        S == SumSeq(win)
        Q == SumSeq([i \in 1..Len(win) |-> win[i] * win[i]])
        a == w * win[Len(win)] - S
        v == w * Q - S * S
        n == 2500 * a * a * (w - 1)
        d == k * k * w * v
    IN IF v = 0 THEN [a |-> a, flat |-> TRUE, sq |-> 0, whole |-> TRUE]
       ELSE [a |-> a, flat |-> FALSE,
             sq |-> 4 * (n \div d) + (4 * (n % d)) \div d,
             whole |-> (4 * (n % d)) % d = 0]

\* position = min(100, max(0, (price - lower) / (upper - lower) * 100)) when
\* the bands differ, else 50; reported as round(position), and the signal is
\* taken from the position before rounding.
BandPositionAt(closes, w, k) ==
    LET o == BandOffset(closes, w, k)
    IN IF o.flat THEN [position |-> 50, signal |-> "neutral"]
       ELSE LET beyond(t) == o.sq > t * t \/ (o.sq = t * t /\ ~o.whole)
                m == CHOOSE t \in 0..100 : t * t <= o.sq /\ (t + 1) * (t + 1) > o.sq
                half == m \div 2
                tie == m % 2 = 1 /\ m * m = o.sq /\ o.whole
                up == 50 + half + (IF m % 2 = 0 THEN 0
                                   ELSE IF ~tie THEN 1
                                   ELSE (50 + half) % 2)
                down == 50 - half - (IF m % 2 = 0 THEN 0
                                     ELSE IF ~tie THEN 1
                                     ELSE (50 - half) % 2)
            IN [position |-> IF o.sq >= 10000 THEN (IF o.a > 0 THEN 100 ELSE 0)
                             ELSE IF o.a >= 0 THEN up ELSE down,
                signal |-> IF o.a > 0 /\ beyond(60) THEN "overbought"
                           ELSE IF o.a < 0 /\ beyond(60) THEN "oversold"
                           ELSE "neutral"]

BandPosition_onestd(closes, w) == BandPositionAt(closes, w, 1)
BandPosition(closes, w) == BandPositionAt(closes, w, BbStd)

VolatilityInsufficient ==
    [bollinger_bands |-> [position |-> 50, signal |-> "neutral"], atr |-> None]

\* calculate_volatility: the Bollinger position and signal, and the ATR; the
\* two percentile entries are not carried.
calculate_volatility(rows, cfg) ==
    IF Len(rows) < cfg.bb_period THEN VolatilityInsufficient
    ELSE LET sum == RollingSum(TrueRange(rows), cfg.atr_period, Len(rows))
         IN [bollinger_bands |-> BandPosition(Closes(rows), cfg.bb_period),
             atr |-> IF sum = None THEN None ELSE Some(Trunc(sum[1], cfg.atr_period))]

\* The columns calculate_moving_averages and calculate_volatility assign on
\* the frame they are given.
MaColumns(cfg) == <<<<"ma", cfg.ma_short>>, <<"ma", cfg.ma_medium>>, <<"ma", cfg.ma_long>>>>
VolatilityColumns == <<<<"prev_close", 0>>, <<"tr1", 0>>, <<"tr2", 0>>, <<"tr3", 0>>,
                       <<"true_range", 0>>>>

calculate_volume_price_trend(rows, cfg) ==
    LET period == Min2(cfg.volume_trend_period, Len(rows))
    IN IF period < 2 THEN "neutral"
       ELSE LET recent_df == TailN(rows, period)
                price_change == recent_df[period].c - recent_df[1].c
                volume_change == recent_df[period].v - recent_df[1].v
            IN IF (price_change > 0 /\ volume_change > 0)
                  \/ (price_change < 0 /\ volume_change < 0) THEN "confirming"
               ELSE IF (price_change > 0 /\ volume_change < 0)
                       \/ (price_change < 0 /\ volume_change > 0) THEN "diverging"
               ELSE "neutral"

VolumeInsufficient == [volume_price_trend |-> "neutral"]

\* calculate_volume: the volume-price trend entry.
calculate_volume(rows, cfg) ==
    IF Len(rows) < cfg.volume_ema_period THEN VolumeInsufficient
    ELSE [volume_price_trend |-> calculate_volume_price_trend(rows, cfg)]

MaEmpty(w) ==
    [window |-> w, value |-> None, position |-> "unknown", signal |-> "neutral"]

\* The moving-average keys of empty_technical_signals are the literal
\* ma_200d, ma_50d and ma_20d.
empty_technical_signals ==
    [moving_averages |-> [ma_long |-> MaEmpty(200), ma_medium |-> MaEmpty(50),
                          ma_short |-> MaEmpty(20), ma_crossovers |-> <<>>],
     momentum |-> MomentumEmpty,
     volatility |-> VolatilityInsufficient,
     volume |-> VolumeInsufficient]

\* The first test of calculate_technical_signals.
TooFewRows(rows, cfg) == rows = <<>> \/ Len(rows) < cfg.ma_long

\* calculate_technical_signals on the rows of its private copy.
TechnicalSignals(rows, cfg) ==
    IF TooFewRows(rows, cfg) THEN empty_technical_signals
    ELSE [moving_averages |-> calculate_moving_averages(rows, cfg),
          momentum |-> calculate_momentum(rows, cfg),
          volatility |-> calculate_volatility(rows, cfg),
          volume |-> calculate_volume(rows, cfg)]

(***************************************************************************)
(* Orchestrator: load_market_data and analyze_blockchain_mareket.          *)
(***************************************************************************)
NoQuote == [price |-> 0, ts |-> 0]
NoFrame == [rows |-> <<>>, written |-> <<>>]
NoResult == [pending |-> TRUE]
NoReport == [pending |-> TRUE]
NoTables == [g \in Grans |-> <<>>]
NoCall == [fn |-> "none"]

\* asyncio.wait(..., return_when=FIRST_COMPLETED) instead of gather.
GatherDone_first(f) == \E x \in Fetches : f[x] = "ok"

\* gather(..., return_exceptions=True) instead: every fetch has settled.
GatherDone_settled(f) == \A x \in Fetches : f[x] # "pending"

\* asyncio.gather(daily_task, minute_task, weekly_task, ticker_task) returns
\* once every awaitable has returned, and raises as soon as one has raised.
GatherDone(f) == \A x \in Fetches : f[x] = "ok"
GatherFailed(f) == \E x \in Fetches : f[x] = "failed"

\* The Trend branch without its handler.
HandlerCatches_reraise(b) == b # "trend_analysis"

\* Each branch function wraps its body in try / except Exception and returns
\* its default from the handler.
HandlerCatches(b) == TRUE

\* The tables are built in the order daily, minute, weekly.
BuildOrder == <<"daily", "minute", "weekly">>
NextToBuild(done) ==
    LET left == {i \in 1..3 : BuildOrder[i] \notin done}
    IN BuildOrder[CHOOSE i \in left : \A j \in left : i <= j]

ConvChoices(list) == IF list = <<>> THEN {"empty"} ELSE ConvOutcomes

\* The report a run of the four branches one after another returns.
SequentialReports(tb, q, cfg) ==
    {[market_info |-> mi,
      trend_analysis |-> calculate_trend_analysis(tb),
      price_levels |-> calculate_price_levels(tb, q),
      technical_signals |-> TechnicalSignals(tb.daily, cfg)] :
        mi \in calculate_market_info(tb, q)}

\* A fetch coroutine returns its data.
FetchOk(f, lists, quotes) ==
    /\ fetch[f] = "pending"
    /\ fetch' = [fetch EXCEPT ![f] = "ok"]
    /\ IF f = "ticker"
       THEN /\ \E q \in quotes : quote' = q
            /\ raw' = raw
       ELSE /\ \E l \in lists[f] : raw' = [raw EXCEPT ![f] = l]
            /\ quote' = quote
    /\ UNCHANGED <<pc, config, conv, built, table, bpc, df, part, result, report, ref, call, ret>>

\* A fetch coroutine raises (no ticker data, a malformed response, a
\* transport error).
FetchFail(f) ==
    /\ fetch[f] = "pending"
    /\ fetch' = [fetch EXCEPT ![f] = "failed"]
    /\ UNCHANGED <<pc, config, raw, quote, conv, built, table, bpc, df, part,
                   result, report, ref, call, ret>>

\* gather raises into load_market_data, which has no handler; analyze logs
\* the exception and raises it again.
GatherRaise ==
    /\ pc = "fetching"
    /\ GatherFailed(fetch)
    /\ pc' = "raised"
    /\ UNCHANGED <<config, fetch, raw, quote, conv, built, table, bpc, df, part,
                   result, report, ref, call, ret>>

GatherReturn ==
    /\ pc = "fetching"
    /\ GatherDone(fetch)
    /\ pc' = "build"
    /\ UNCHANGED <<config, fetch, raw, quote, conv, built, table, bpc, df, part,
                   result, report, ref, call, ret>>

\* One call of safe_dataclass_to_dataframe in load_market_data.
BuildTable(g) ==
    /\ pc = "build"
    /\ built # Grans
    /\ g = NextToBuild(built)
    /\ \E cv \in ConvChoices(raw[g]) :
          /\ conv' = [conv EXCEPT ![g] = cv]
          /\ \E t \in BuildOutcomes(raw[g], cv) : table' = [table EXCEPT ![g] = t]
    /\ built' = built \cup {g}
    /\ UNCHANGED <<pc, config, fetch, raw, quote, bpc, df, part, result, report, ref, call, ret>>

\* load_market_data returns the MarketData; analyze creates the four tasks.
CreateTasks ==
    /\ pc = "build"
    /\ built = Grans
    /\ pc' = "gather"
    /\ bpc' = [b \in Branches |-> "scheduled"]
    /\ UNCHANGED <<config, fetch, raw, quote, conv, built, table, df, part,
                   result, report, ref, call, ret>>

\* A branch that is a single call: it returns its value, or its exception
\* reaches gather and analyze raises.
Finish(b, raises, values) ==
    /\ pc = "gather"
    /\ bpc[b] = "scheduled"
    /\ IF raises /\ ~HandlerCatches(b)
       THEN /\ bpc' = [bpc EXCEPT ![b] = "failed"]
            /\ pc' = "raised"
            /\ result' = result
       ELSE /\ bpc' = [bpc EXCEPT ![b] = "done"]
            /\ pc' = pc
            /\ \E v \in values : result' = [result EXCEPT ![b] = v]
    /\ UNCHANGED <<config, fetch, raw, quote, conv, built, table, df, part,
                   report, ref, call, ret>>

RunMarketInfo ==
    Finish("market_info", MarketInfoRaises(quote), calculate_market_info(table, quote))

RunTrendAnalysis ==
    Finish("trend_analysis", TrendAnalysisRaises(table), {calculate_trend_analysis(table)})

RunPriceLevels ==
    Finish("price_levels", PriceLevelsRaises(table, quote), {calculate_price_levels(table, quote)})

\* calculate_technical_signals: df = data.daily_df.copy() and the row test.
TsCopy ==
    /\ pc = "gather"
    /\ bpc["technical_signals"] = "scheduled"
    /\ df' = [rows |-> table["daily"], written |-> <<>>]
    /\ IF TooFewRows(table["daily"], config)
       THEN /\ bpc' = [bpc EXCEPT !["technical_signals"] = "done"]
            /\ result' = [result EXCEPT !["technical_signals"] = empty_technical_signals]
       ELSE /\ bpc' = [bpc EXCEPT !["technical_signals"] = "ma"]
            /\ result' = result
    /\ UNCHANGED <<pc, config, fetch, raw, quote, conv, built, table, part, report, ref, call, ret>>

TsStep(from, to, name, value, columns) ==
    /\ pc = "gather"
    /\ bpc["technical_signals"] = from
    /\ part' = [part EXCEPT ![name] = value]
    /\ df' = [df EXCEPT !.written = @ \o columns]
    /\ bpc' = [bpc EXCEPT !["technical_signals"] = to]
    /\ UNCHANGED <<pc, config, fetch, raw, quote, conv, built, table, result, report, ref, call, ret>>

TsMovingAverages ==
    TsStep("ma", "momentum", "moving_averages",
           calculate_moving_averages(df.rows, config),
           IF Len(df.rows) < config.ma_long THEN <<>> ELSE MaColumns(config))

TsMomentum ==
    TsStep("momentum", "volatility", "momentum",
           calculate_momentum(df.rows, config), <<>>)

TsVolatility ==
    TsStep("volatility", "volume", "volatility",
           calculate_volatility(df.rows, config),
           IF Len(df.rows) < config.bb_period THEN <<>> ELSE VolatilityColumns)

\* calculate_volume, and the return of calculate_technical_signals.
TsVolume ==
    /\ pc = "gather"
    /\ bpc["technical_signals"] = "volume"
    /\ part' = [part EXCEPT !["volume"] = calculate_volume(df.rows, config)]
    /\ result' = [result EXCEPT !["technical_signals"] = part']
    /\ bpc' = [bpc EXCEPT !["technical_signals"] = "done"]
    /\ UNCHANGED <<pc, config, fetch, raw, quote, conv, built, table, df, report, ref, call, ret>>

\* asyncio.wait(..., return_when=FIRST_COMPLETED) instead of gather: the dict
\* is built as soon as one task has finished.
Assemble_first ==
    /\ pc = "gather"
    /\ \E b \in Branches : bpc[b] = "done"
    /\ report' = [market_info |-> result["market_info"],
                  trend_analysis |-> result["trend_analysis"],
                  price_levels |-> result["price_levels"],
                  technical_signals |-> result["technical_signals"]]
    /\ \E r \in SequentialReports(table, quote, config) : ref' = r
    /\ pc' = "returned"
    /\ UNCHANGED <<config, fetch, raw, quote, conv, built, table, bpc, df, part, result, call, ret>>

\* gather returns the four results in task order; analyze returns the dict.
Assemble ==
    /\ pc = "gather"
    /\ \A b \in Branches : bpc[b] = "done"
    /\ report' = [market_info |-> result["market_info"],
                  trend_analysis |-> result["trend_analysis"],
                  price_levels |-> result["price_levels"],
                  technical_signals |-> result["technical_signals"]]
    /\ \E r \in SequentialReports(table, quote, config) : ref' = r
    /\ pc' = "returned"
    /\ UNCHANGED <<config, fetch, raw, quote, conv, built, table, bpc, df, part, result, call, ret>>

(***************************************************************************)
(* Inputs.                                                                 *)
(***************************************************************************)
\* AnalysisConfig(): the defaults.
DefaultConfig ==
    [ma_short |-> 20, ma_medium |-> 50, ma_long |-> 200,
     rsi_period |-> 14, rsi_overbought |-> 70, rsi_oversold |-> 30,
     bb_period |-> 20, atr_period |-> 14,
     volume_ema_period |-> 20, volume_trend_period |-> 5]

\* A configuration with short windows, for short tables.
SmallConfig(short, medium, long, rsi) ==
    [ma_short |-> short, ma_medium |-> medium, ma_long |-> long,
     rsi_period |-> rsi, rsi_overbought |-> 70, rsi_oversold |-> 30,
     bb_period |-> 2, atr_period |-> 2,
     volume_ema_period |-> 2, volume_trend_period |-> 2]

\* A daily or weekly candle with close c, and a minute candle.
Day(ts, c, cr) == Bar(ts, c, c + 1, Max2(c - 1, 0), c, 1 + c, cr)
Minute(ts, o, c) == Bar(ts, o, Max2(o, c), Min2(o, c), c, 1, 0)
\* A candle of which only the close matters.
Flat(ts, c) == Bar(ts, c, c, c, c, 1, 0)

\* The candle lists of the orchestrator's runs.  The provider answers newest
\* first; one daily list has 30 rows (the volatility window) ending in a
\* close of 0, one alternates between two closes.
RunLists ==
    [daily |-> {<<>>,
                <<Day(3, 3, 1), Day(2, 2, 1), Day(1, 1, 1)>>,
                <<Day(3, 0, 0), Day(2, 0, 0), Day(1, 0, 0)>>,
                [i \in 1..VolatilityRows |-> Day(i, IF i = VolatilityRows THEN 0 ELSE 1, 0)],
                [i \in 1..VolatilityRows |-> Day(i, 1 + (i % 2), 1)]},
     minute |-> {<<>>,
                 <<Minute(2, 0, 0), Minute(1, 0, 0)>>,
                 <<Minute(2, 2, 3), Minute(1, 1, 2)>>},
     weekly |-> {<<>>, <<Day(2, 110, 0), Day(1, 100, 0)>>}]

RunQuotes == {[price |-> p, ts |-> t] : p \in {0, 50}, t \in {1500, BadStamp}}
RunConfigs == {SmallConfig(1, 2, 3, 2)}

NoParts == [moving_averages |-> NoResult, momentum |-> NoResult,
            volatility |-> NoResult, volume |-> NoResult]

(***************************************************************************)
(* The run of analyze_blockchain_mareket.                                  *)
(***************************************************************************)
Init ==
    /\ pc = "fetching"
    /\ config \in RunConfigs
    /\ fetch = [f \in Fetches |-> "pending"]
    /\ raw = NoTables
    /\ quote = NoQuote
    /\ conv = [g \in Grans |-> "none"]
    /\ built = {}
    /\ table = NoTables
    /\ bpc = [b \in Branches |-> "idle"]
    /\ df = NoFrame
    /\ part = NoParts
    /\ result = [b \in Branches |-> NoResult]
    /\ report = NoReport
    /\ ref = NoReport
    /\ call = NoCall
    /\ ret = NoCall

Fetching ==
    \E f \in Fetches : FetchOk(f, RunLists, RunQuotes) \/ FetchFail(f)

Loading == GatherRaise \/ GatherReturn \/ (\E g \in Grans : BuildTable(g)) \/ CreateTasks

Analysing ==
    \/ RunMarketInfo
    \/ RunTrendAnalysis
    \/ RunPriceLevels
    \/ TsCopy
    \/ TsMovingAverages
    \/ TsMomentum
    \/ TsVolatility
    \/ TsVolume
    \/ Assemble

Next == Fetching \/ Loading \/ Analysing

Spec == Init /\ [][Next]_vars

(***************************************************************************)
(* safe_dataclass_to_dataframe on its own: every candle list of at most    *)
(* MaxLen candles with stamps up to MaxStamp (NaT included) is built.      *)
(***************************************************************************)
MaxLen == 3
MaxStamp == 2
MaxPrice == 2

TableCandles == {Flat(ts, c) : ts \in NaT..MaxStamp, c \in 1..MaxPrice}
TableLists == SeqsUpTo(TableCandles, MaxLen)

InitTable ==
    /\ pc = "build"
    /\ config \in RunConfigs
    /\ fetch = [f \in Fetches |-> "ok"]
    /\ \E l \in TableLists : raw = [NoTables EXCEPT !["daily"] = l]
    /\ quote = [price |-> 2, ts |-> 1500]
    /\ conv = [g \in Grans |-> "none"]
    /\ built = {}
    /\ table = NoTables
    /\ bpc = [b \in Branches |-> "idle"]
    /\ df = NoFrame
    /\ part = NoParts
    /\ result = [b \in Branches |-> NoResult]
    /\ report = NoReport
    /\ ref = NoReport
    /\ call = NoCall
    /\ ret = NoCall

NextTable == \E g \in Grans : BuildTable(g)

SpecTable == InitTable /\ [][NextTable]_vars

(***************************************************************************)
(* calculate_technical_signals on its own: every daily table of at most    *)
(* MaxRows rows with closes up to MaxClose, and the 200-row ramp of closes *)
(* 100..299 under the default configuration.                               *)
(***************************************************************************)
MaxRows == 5
MaxClose == 2
Ramp == [i \in 1..200 |-> Flat(i, 99 + i)]
IndTables == {[i \in 1..Len(cs) |-> Flat(i, cs[i])] : cs \in SeqsUpTo(0..MaxClose, MaxRows)}
IndConfigs == {SmallConfig(1, 2, 3, 2), SmallConfig(2, 3, 4, 3), SmallConfig(1, 1, 1, 3)}
IndInputs == (IndTables \X IndConfigs) \cup {<<Ramp, DefaultConfig>>}

InitInd ==
    /\ pc = "gather"
    /\ \E in \in IndInputs :
          /\ config = in[2]
          /\ raw = [NoTables EXCEPT !["daily"] = in[1]]
          /\ table = [NoTables EXCEPT !["daily"] = in[1]]
    /\ fetch = [f \in Fetches |-> "ok"]
    /\ quote = [price |-> 2, ts |-> 1500]
    /\ conv = [g \in Grans |-> IF g = "daily" /\ raw[g] # <<>> THEN "ok" ELSE "empty"]
    /\ built = Grans
    /\ bpc = [b \in Branches |-> "scheduled"]
    /\ df = NoFrame
    /\ part = NoParts
    /\ result = [b \in Branches |-> NoResult]
    /\ report = NoReport
    /\ ref = NoReport
    /\ call = NoCall
    /\ ret = NoCall

NextInd == TsCopy \/ TsMovingAverages \/ TsMomentum \/ TsVolatility \/ TsVolume

SpecInd == InitInd /\ [][NextInd]_vars

(***************************************************************************)
(* The library functions called on their own, each on every argument of a  *)
(* bounded set.                                                            *)
(***************************************************************************)
MaxHist == 2
MaxSeries == 3
Histograms ==
    SeqsUpTo({None} \cup {Some(v) : v \in (0 - MaxHist)..MaxHist}, MaxSeries)
MacdCalls == {[fn |-> "get_macd_trend", histogram |-> h] : h \in Histograms}

\* Windows of daily rows whose highs and lows lie around a price of 50.0 or
\* 50.5, counted in halves.
LevelValues == {99, 100, 101, 103}
LevelCandles == {[h |-> h, l |-> l] : h \in LevelValues, l \in LevelValues}
LevelWindows == SeqsUpTo({k \in LevelCandles : k.l <= k.h}, MaxSeries)
LevelCalls ==
    {[fn |-> "calculate_support_resistance", df |-> d, current_price |-> p, unit |-> 2] :
        d \in LevelWindows, p \in {100, 101}}

\* Daily tables of BandRows - 1 and BandRows rows for a Bollinger window of
\* BandRows.  The bands depend on the earlier closes of the window only
\* through their sum and sum of squares, so these are taken in nondecreasing
\* order; the last close is free.
MaxBand == 3
BandRows == 7
BandConfig == [SmallConfig(1, 2, 3, 2) EXCEPT !.bb_period = BandRows]
BandPrefixes ==
    {cs \in [1..(BandRows - 1) -> 0..MaxBand] :
        \A i \in 1..(BandRows - 2) : cs[i] <= cs[i + 1]}
BandCloses == BandPrefixes \cup {Append(cs, c) : cs \in BandPrefixes, c \in 0..MaxBand}
VolatilityCalls ==
    {[fn |-> "calculate_volatility",
      df |-> [i \in 1..Len(cs) |-> Flat(i, cs[i])],
      config |-> BandConfig] : cs \in BandCloses}

\* Medium-term windows of MediumRows daily rows: closes that start at 100
\* and move by a step a day, each row's change rate having the sign of its
\* step; the change rate of the first row, against the day before the
\* window, is free.
MediumSteps == {-1, 1, 2}
MediumWindows ==
    {[i \in 1..MediumRows |->
         Day(i, 100 + SumRange(st, 1, i - 1), IF i = 1 THEN first ELSE st[i - 1])] :
        st \in [1..(MediumRows - 1) -> MediumSteps], first \in {-1, 0, 1}}
MediumCalls == {[fn |-> "analyze_medium_term_trend", df |-> d] : d \in MediumWindows}

\* Minute windows of 2 to ShortRows rows whose candles open at 100 or 102 and
\* close within 2 of the open, and weekly windows of 2 to ShortRows rows that
\* start at 100 and move by up to 9 a week.
ShortCandles ==
    {Minute(0, 100, 100), Minute(0, 100, 101), Minute(0, 100, 102),
     Minute(0, 100, 99), Minute(0, 102, 100)}
ShortWindows ==
    {[i \in 1..n |-> [w[i] EXCEPT !.ts = i]] :
        n \in {2}, w \in [1..2 -> ShortCandles]}
    \cup {[i \in 1..ShortRows |-> [w[i] EXCEPT !.ts = i]] : w \in [1..ShortRows -> ShortCandles]}
ShortCalls == {[fn |-> "analyze_short_term_trend", df |-> d] : d \in ShortWindows}

LongSteps == {-9, -1, 0, 1, 9}
LongWindows ==
    {[i \in 1..(Len(st) + 1) |-> Day(i, 100 + SumRange(st, 1, i - 1), 0)] :
        st \in SeqsUpTo(LongSteps, ShortRows - 1) \ {<<>>}}
LongCalls == {[fn |-> "analyze_long_term_trend", df |-> d] : d \in LongWindows}

\* Minute tables of about VolumeRows rows: the latest VolumeWindow rows trade
\* a volume of recent each, the VolumeWindow rows before them previous each,
\* and any older rows older each.
MaxVolume == 2
VolumeTables ==
    {[i \in 1..n |->
         Bar(i, 1, 1, 1, 1,
             IF i > n - VolumeWindow THEN recent
             ELSE IF i > n - VolumeRows THEN previous ELSE older, 0)] :
        n \in (VolumeRows - 2)..(VolumeRows + 2),
        recent \in 0..MaxVolume, previous \in 0..MaxVolume, older \in 0..MaxVolume}
VolumeCalls == {[fn |-> "calculate_volume_change", df |-> d] : d \in VolumeTables}

\* Daily closes of about CrossoverRows rows for analyze_ma_crossovers with
\* moving averages of 1 and 2 rows: flat at 1 except for one row at 2, which
\* makes the short average cross the medium one upwards and back.
CrossoverCloses ==
    {[i \in 1..n |-> IF i = k THEN 2 ELSE 1] :
        n \in (CrossoverRows - 2)..(CrossoverRows + 3), k \in 0..(CrossoverRows + 3)}
CrossoverCalls ==
    {[fn |-> "analyze_ma_crossovers", closes |-> cs, config |-> SmallConfig(1, 2, 3, 2)] :
        cs \in CrossoverCloses}

\* Windows whose first two rows lie before the last TestedRows rows: three
\* rows at the price and two rows that close at their low or at their high.
RecentCandles ==
    {[h |-> 100, l |-> 100, c |-> 100], [h |-> 103, l |-> 100, c |-> 100],
     [h |-> 103, l |-> 100, c |-> 103]}
AgedWindows ==
    {<<[h |-> k.h, l |-> k.l, c |-> k.l], [h |-> k.h, l |-> k.l, c |-> k.l]>>
        \o [i \in 1..(TestedRows - 2) |-> [h |-> 100, l |-> 100, c |-> 100]]
        \o <<a, b>> :
        k \in {x \in LevelCandles : x.l <= x.h}, a \in RecentCandles, b \in RecentCandles}

\* calculate_price_levels on the same windows, in whole units, for a quote
\* of 100.
PriceLevelCalls ==
    {[fn |-> "calculate_price_levels",
      tables |-> [NoTables EXCEPT
                     !["daily"] = [i \in 1..Len(d) |->
                                      Bar(i, d[i].l, d[i].h, d[i].l, d[i].l, 1, 0)]],
      quote |-> [price |-> 100, ts |-> 1500]] : d \in LevelWindows}
    \cup
    {[fn |-> "calculate_price_levels",
      tables |-> [NoTables EXCEPT
                     !["daily"] = [i \in 1..Len(d) |->
                                      Bar(i, d[i].l, d[i].h, d[i].l, d[i].c, 1, 0)]],
      quote |-> [price |-> 100, ts |-> 1500]] : d \in AgedWindows}

\* calculate_trend_duration on every daily table of at most MaxRows rows.
DurationCalls == {[fn |-> "calculate_trend_duration", df |-> d] : d \in IndTables}

FnCalls ==
    MacdCalls \cup LevelCalls \cup VolatilityCalls \cup MediumCalls \cup VolumeCalls
        \cup CrossoverCalls \cup PriceLevelCalls \cup DurationCalls
        \cup ShortCalls \cup LongCalls

InitFn ==
    /\ pc = "call"
    /\ config = DefaultConfig
    /\ fetch = [f \in Fetches |-> "ok"]
    /\ raw = NoTables
    /\ quote = NoQuote
    /\ conv = [g \in Grans |-> "none"]
    /\ built = {}
    /\ table = NoTables
    /\ bpc = [b \in Branches |-> "idle"]
    /\ df = NoFrame
    /\ part = NoParts
    /\ result = [b \in Branches |-> NoResult]
    /\ report = NoReport
    /\ ref = NoReport
    /\ call \in FnCalls
    /\ ret = NoCall

Returns(value) ==
    /\ ret = NoCall
    /\ ret' = [fn |-> call.fn, value |-> value]
    /\ UNCHANGED <<pc, config, fetch, raw, quote, conv, built, table, bpc, df, part,
                   result, report, ref, call>>

CallMacdTrend ==
    /\ call.fn = "get_macd_trend"
    /\ Returns(get_macd_trend(call.histogram))

CallSupportResistance ==
    /\ call.fn = "calculate_support_resistance"
    /\ Returns(calculate_support_resistance(call.df, call.current_price, call.unit))

CallVolatility ==
    /\ call.fn = "calculate_volatility"
    /\ Returns(calculate_volatility(call.df, call.config))

CallMediumTrend ==
    /\ call.fn = "analyze_medium_term_trend"
    /\ Returns(analyze_medium_term_trend(call.df))

CallShortTrend ==
    /\ call.fn = "analyze_short_term_trend"
    /\ Returns(analyze_short_term_trend(call.df))

CallLongTrend ==
    /\ call.fn = "analyze_long_term_trend"
    /\ Returns(analyze_long_term_trend(call.df))

CallVolumeChange ==
    /\ call.fn = "calculate_volume_change"
    /\ Returns(calculate_volume_change(call.df))

CallMaCrossovers ==
    /\ call.fn = "analyze_ma_crossovers"
    /\ Returns(analyze_ma_crossovers(call.closes, call.config))

CallPriceLevels ==
    /\ call.fn = "calculate_price_levels"
    /\ Returns(calculate_price_levels(call.tables, call.quote))

CallTrendDuration ==
    /\ call.fn = "calculate_trend_duration"
    /\ Returns(calculate_trend_duration(call.df))

NextFn ==
    \/ CallMacdTrend
    \/ CallSupportResistance
    \/ CallVolatility
    \/ CallMediumTrend
    \/ CallVolumeChange
    \/ CallMaCrossovers
    \/ CallPriceLevels
    \/ CallTrendDuration
    \/ CallShortTrend
    \/ CallLongTrend

SpecFn == InitFn /\ [][NextFn]_vars

(***************************************************************************)
(* Properties of the run (specification Spec).                             *)
(***************************************************************************)
AllFetched == \A f \in Fetches : fetch[f] = "ok"
SomeFetchFailed == \E f \in Fetches : fetch[f] = "failed"
NoBranchStarted == \A b \in Branches : bpc[b] = "idle"

\* C1: no Time-Series Table is constructed until all four fetch calls have
\* completed, and no analysis branch starts before all three tables have
\* been built.
C1_Barriers ==
    /\ built # {} => AllFetched
    /\ ~NoBranchStarted => built = Grans /\ AllFetched

\* C1 witness: the three tables are built and a branch has run.
C1_Witness == built = Grans /\ bpc["trend_analysis"] = "done" /\ pc = "gather"

\* C2: once any fetch call has failed, the run can only end by raising: no
\* table is built, no analysis branch is started and no Report is returned,
\* whichever of the other fetches have completed.
C2_FetchFailureAborts ==
    SomeFetchFailed =>
        /\ pc = "raised" \/ (pc = "fetching" /\ ENABLED GatherRaise)
        /\ built = {}
        /\ NoBranchStarted
        /\ report = NoReport

\* C2 witness: the quote fetch failed after the three candle fetches had
\* returned, and analyze has raised.
C2_Witness ==
    /\ pc = "raised"
    /\ fetch["ticker"] = "failed"
    /\ \A g \in Grans : fetch[g] = "ok"

\* The sub-records each branch can return for the tables, quote and config
\* of the run, whatever the other branches do.
BranchValues(b) ==
    IF b = "market_info" THEN calculate_market_info(table, quote)
    ELSE IF b = "trend_analysis" THEN {calculate_trend_analysis(table)}
    ELSE IF b = "price_levels" THEN {calculate_price_levels(table, quote)}
    ELSE {TechnicalSignals(table["daily"], config)}

\* The published default of a branch.
BranchDefaults(b) ==
    IF b = "market_info" THEN {MarketInfoDefault(now) : now \in ClockReadings}
    ELSE IF b = "trend_analysis" THEN {TrendDefault}
    ELSE IF b = "price_levels" THEN {PriceLevelsDefault}
    ELSE {empty_technical_signals}

\* An exception reaches the handler of the branch.
BranchErrs(b) ==
    IF b = "market_info" THEN MarketInfoRaises(quote)
    ELSE IF b = "trend_analysis" THEN TrendAnalysisRaises(table)
    ELSE IF b = "price_levels" THEN PriceLevelsRaises(table, quote)
    ELSE FALSE

\* C3: once phase 1 has succeeded the run never raises, and the Report it
\* returns has all four sub-records: the sub-record of a branch in which a
\* computation error occurred is that branch's published default, and every
\* other sub-record is what its branch computes from the tables, the quote
\* and the config alone.
C3_BranchErrorsDegrade ==
    /\ (AllFetched /\ pc # "fetching") => pc # "raised"
    /\ pc = "returned" =>
          /\ DOMAIN report = Branches
          /\ \A b \in Branches :
                /\ BranchErrs(b) => report[b] \in BranchDefaults(b)
                /\ report[b] \in BranchValues(b)

\* C3 witness: a Report was returned although the Trend branch hit an error
\* (a NaN strength) while the Level branch did not.
C3_Witness ==
    /\ pc = "returned"
    /\ TrendAnalysisRaises(table)
    /\ ~PriceLevelsRaises(table, quote)
    /\ ~MarketInfoRaises(quote)
    /\ table["daily"] # <<>>

ConversionRaised(g) == conv[g] \in {"fallback", "failed"}

\* C4 as claimed: an exception raised while constructing a Time-Series Table
\* aborts the run, so no Report is returned for that run.
C4_Original == (\E g \in Grans : ConversionRaised(g)) => pc # "returned"

\* C4 as amended: an exception raised while constructing a table never
\* aborts the run: the table is built by the asdict fallback, or is empty
\* when the fallback raises too, and the run goes on to its Report.
C4_ConstructionErrorsSwallowed ==
    /\ \A g \in built :
          /\ conv[g] = "fallback" => table[g] \in SortOutcomes(raw[g])
          /\ conv[g] = "failed" => table[g] = <<>>
    /\ (\E g \in Grans : ConversionRaised(g)) =>
          /\ pc # "raised"
          /\ pc = "build" => ENABLED (CreateTasks \/ \E g \in Grans : BuildTable(g))

\* C4 witness: a Report was returned in a run whose daily conversion raised
\* twice and whose minute conversion fell back.
C4_Witness ==
    /\ pc = "returned"
    /\ conv["daily"] = "failed"
    /\ conv["minute"] = "fallback"
    /\ table["minute"] # <<>>

\* C5: for fixed fetch results and config the Report of the concurrent run
\* equals the Report of running the four branches one after another.
C5_InterleavingIndependent == pc = "returned" => report = ref

(***************************************************************************)
(* Properties of the table construction (specification SpecTable).         *)
(***************************************************************************)
Permuted(l, p) == [i \in 1..Len(l) |-> l[p[i]]]

IsRearrangement(t, l) ==
    /\ Len(t) = Len(l)
    /\ \E p \in Perms(Len(l)) : t = Permuted(l, p)

SortedNaTLast(t) ==
    \A i, j \in 1..Len(t) :
        i < j => /\ t[i].ts = NaT => t[j].ts = NaT
                 /\ t[j].ts # NaT => t[i].ts <= t[j].ts

Rebuilds(l) == UNION {BuildOutcomes(Permuted(l, p), "ok") : p \in Perms(Len(l))}

DailyBuilt == "daily" \in built /\ conv["daily"] = "ok"

DistinctStamps(l) == \A i, j \in 1..Len(l) : i # j => l[i].ts # l[j].ts

\* C7 as claimed: building the table from any permutation of the list, ties
\* and unparseable timestamps included, yields the identical table.
C7_Original == DailyBuilt => \A t \in Rebuilds(raw["daily"]) : t = table["daily"]

\* C7 as amended: every permutation of the list is built into a table with
\* the same candles and the same timestamp column, and into the identical
\* table when no two candles of the list share a timestamp and at most one
\* timestamp is unparseable.
C7_PermutationInvariant ==
    DailyBuilt =>
        \A t \in Rebuilds(raw["daily"]) :
            /\ IsRearrangement(t, table["daily"])
            /\ Stamps(t) = Stamps(table["daily"])
            /\ DistinctStamps(raw["daily"]) => t = table["daily"]

\* C7 witness: an unsorted list of three candles with distinct timestamps,
\* one of them unparseable, has been built.
C7_Witness ==
    /\ DailyBuilt
    /\ Len(raw["daily"]) = 3
    /\ DistinctStamps(raw["daily"])
    /\ raw["daily"][2].ts = NaT
    /\ raw["daily"] # table["daily"]

(***************************************************************************)
(* Properties of the indicators (specification SpecInd).                   *)
(***************************************************************************)
Reported == bpc["technical_signals"] = "done"
MaKeys == {"ma_short", "ma_medium", "ma_long"}
ReportedMa(k) == result["technical_signals"].moving_averages[k].value
DailyRows == Len(table["daily"])

\* The sum of the last w closes of the daily table.
LastSum(w) == SumSeq(TailN(Closes(table["daily"]), w))

\* C8 as claimed: the reported moving-average value of window w is null when
\* the daily table has fewer than w rows and otherwise equals the arithmetic
\* mean of the last w closes.
C8_Original ==
    Reported =>
        \A k \in MaKeys :
            /\ DailyRows < config[k] => ReportedMa(k) = None
            /\ DailyRows >= config[k] =>
                  /\ ReportedMa(k) # None
                  /\ ReportedMa(k)[1] * config[k] = LastSum(config[k])

\* C8 as amended: the reported value of window w is null when the daily
\* table has fewer than w rows or fewer than ma_long rows, and otherwise is
\* the arithmetic mean of the last w closes truncated to an integer.
C8_TruncatedMean ==
    Reported =>
        \A k \in MaKeys :
            /\ (DailyRows < config[k] \/ DailyRows < config["ma_long"]) =>
                  ReportedMa(k) = None
            /\ (DailyRows >= config[k] /\ DailyRows >= config["ma_long"]) =>
                  /\ ReportedMa(k) # None
                  /\ ReportedMa(k)[1] * config[k] <= LastSum(config[k])
                  /\ LastSum(config[k]) < (ReportedMa(k)[1] + 1) * config[k]

\* C8 witness: the 200 closes 100..299 under the default windows report 289
\* for MA-20.
C8_Witness ==
    /\ Reported
    /\ DailyRows = 200
    /\ config["ma_short"] = 20
    /\ ReportedMa("ma_short") = Some(289)

MomentumDone == part["momentum"] # NoResult
ReportedRsi == part["momentum"].rsi.value

\* The rise and the fall summed over the price deltas of the last rsi_period
\* rows (the first row of a table has no delta).
WindowRise ==
    LET c == Closes(table["daily"])
    IN SumSeq([i \in 1..Len(c) |->
                  IF i > Len(c) - config["rsi_period"] /\ i > 1 /\ c[i] > c[i - 1]
                  THEN c[i] - c[i - 1] ELSE 0])
WindowFall ==
    LET c == Closes(table["daily"])
    IN SumSeq([i \in 1..Len(c) |->
                  IF i > Len(c) - config["rsi_period"] /\ i > 1 /\ c[i] < c[i - 1]
                  THEN c[i - 1] - c[i] ELSE 0])

\* C9: whenever the average loss over the last rsi_period price deltas is
\* zero, calculate_momentum reports the RSI value as null, also when the
\* average gain over that window is positive.
C9_ZeroLossIsNull ==
    (MomentumDone /\ DailyRows >= config["rsi_period"] /\ WindowFall = 0) =>
        ReportedRsi = None

\* C10: the RSI value calculate_momentum reports (in tenths) is null or within
\* [0, 100], and is exactly 50 when the gains equal the non-zero losses over
\* the rsi_period window.
C10_RsiBounded ==
    MomentumDone =>
        /\ ReportedRsi = None \/ (0 <= ReportedRsi[1] /\ ReportedRsi[1] <= 1000)
        /\ (DailyRows >= config["rsi_period"] /\ WindowRise = WindowFall /\ WindowFall # 0) =>
              ReportedRsi = Some(500)

\* C10 witness: a window whose rises and falls both sum to the same positive
\* amount has been reported as 50.
C10_Witness ==
    /\ MomentumDone
    /\ DailyRows >= config["rsi_period"]
    /\ WindowRise = WindowFall
    /\ WindowFall > 0
    /\ ReportedRsi = Some(500)

(***************************************************************************)
(* Properties of the library functions (specification SpecFn).             *)
(***************************************************************************)
Returned(fn) == ret # NoCall /\ ret.fn = fn

\* The last two histogram values are both defined and have different signs.
SignFlip(histogram) ==
    LET n == Len(histogram)
    IN /\ n >= 2
       /\ histogram[n] # None
       /\ histogram[n - 1] # None
       /\ LET a == histogram[n][1]
              b == histogram[n - 1][1]
          IN \/ a > 0 /\ b <= 0
             \/ b > 0 /\ a <= 0
             \/ a < 0 /\ b >= 0
             \/ b < 0 /\ a >= 0

\* C11: get_macd_trend returns crossover if and only if the last two
\* histogram values are both defined and have different signs, whatever
\* their magnitudes.
C11_CrossoverIffSignFlip ==
    Returned("get_macd_trend") =>
        (ret.value = "crossover" <=> SignFlip(call.histogram))

\* The rows of the window whose low is below, and whose high is above, the
\* current price of a calculate_support_resistance call.
LowsBelow == {i \in 1..Len(call.df) : call.df[i].l < call.current_price}
HighsAbove == {i \in 1..Len(call.df) : call.df[i].h > call.current_price}
RealSupports == Min2(2, Cardinality(LowsBelow))
RealResistances == Min2(2, Cardinality(HighsAbove))
RoundPrice(x) == RoundHalfEven(x, call.unit)
RoundPct(pct) == RoundHalfEven(call.current_price * pct, 100 * call.unit)

\* C13 as claimed: every reported support level that comes from a real
\* candidate is, as reported, strictly below the current price, every
\* reported resistance level that comes from a real candidate is strictly
\* above it, and a synthetic level appears on a side only when that side has
\* fewer than 2 real candidates.
C13_Original ==
    Returned("calculate_support_resistance") =>
        /\ \A j \in 1..RealSupports :
              ret.value.support[j] * call.unit < call.current_price
        /\ \A j \in 1..RealResistances :
              ret.value.resistance[j] * call.unit > call.current_price
        /\ Cardinality(LowsBelow) >= 2 =>
              \A j \in 1..2 : \E i \in LowsBelow :
                  ret.value.support[j] = RoundPrice(call.df[i].l)
        /\ Cardinality(HighsAbove) >= 2 =>
              \A j \in 1..2 : \E i \in HighsAbove :
                  ret.value.resistance[j] = RoundPrice(call.df[i].h)

\* C13: every reported support level that comes from a real candidate is the
\* rounding of a low strictly below the current price, so it is at most the
\* rounded price, and every reported resistance level that comes from a real
\* candidate is the rounding of a high strictly above the price, so it is at
\* least the rounded price; the remaining places of a side with fewer than 2
\* real candidates, and only those, hold the synthetic 2% and 4% levels.
C13_RealLevelsBeyondPrice ==
    Returned("calculate_support_resistance") =>
        /\ \A j \in 1..RealSupports :
              /\ \E i \in LowsBelow : ret.value.support[j] = RoundPrice(call.df[i].l)
              /\ ret.value.support[j] <= RoundPrice(call.current_price)
        /\ \A j \in 1..RealResistances :
              /\ \E i \in HighsAbove : ret.value.resistance[j] = RoundPrice(call.df[i].h)
              /\ ret.value.resistance[j] >= RoundPrice(call.current_price)
        /\ \A j \in (RealSupports + 1)..2 :
              ret.value.support[j] = RoundPct(100 - 2 * (j - RealSupports))
        /\ \A j \in (RealResistances + 1)..2 :
              ret.value.resistance[j] = RoundPct(100 + 2 * (j - RealResistances))

\* C13 witness: a window with one real support that rounds up to the price
\* and two real resistances has been evaluated.
C13_Witness ==
    /\ Returned("calculate_support_resistance")
    /\ Cardinality(LowsBelow) = 1
    /\ Cardinality(HighsAbove) >= 2
    /\ ret.value.support[1] * call.unit >= call.current_price


\* The Bollinger window of a calculate_volatility call: w times the distance
\* of the last close from the band middle, and w*(w-1) times the variance.
BandW == call.config.bb_period
BandWin == TailN(Closes(call.df), BandW)
BandDev == BandW * BandWin[Len(BandWin)] - SumSeq(BandWin)
BandVar ==
    BandW * SumSeq([i \in 1..Len(BandWin) |-> BandWin[i] * BandWin[i]])
        - SumSeq(BandWin) * SumSeq(BandWin)
HasBands == Len(call.df) >= BandW /\ BandVar > 0
\* (close - middle)^2 against (bb_std * std)^2, both times w*w*(w-1).
DevSq == BandDev * BandDev * (BandW - 1)
BandSq == BbStd * BbStd * BandW * BandVar
OnBand == DevSq = BandSq
OutsideBands == DevSq > BandSq
ReportedBand == ret.value.bollinger_bands
\* The reported position p is within one half of 50 + 50*(close - middle)/
\* (bb_std*std), the point of the line through (lower, 0) and (upper, 100).
OnTheLine(p) ==
    LET t == 2 * Abs(p - 50)
    IN /\ BandDev > 0 => p >= 50
       /\ BandDev < 0 => p <= 50
       /\ (t + 1) * (t + 1) * BandSq >= 10000 * DevSq
       /\ t > 0 => (t - 1) * (t - 1) * BandSq <= 10000 * DevSq
\* The position before rounding is more than 30 away from 50.
FarFromMiddle == HasBands /\ 10000 * DevSq > 3600 * BandSq

\* C14: the Bollinger position is 0 when the last close equals the lower
\* band, 100 when it equals the upper band, linear in between, and clamped to
\* 0 or 100 when the close lies outside the bands; the reported position is
\* always within [0,100], with signal overbought only above 80 and oversold
\* only below 20.
C14_BandPosition ==
    Returned("calculate_volatility") =>
        /\ ReportedBand.position \in 0..100
        /\ (HasBands /\ (OnBand \/ OutsideBands)) =>
              ReportedBand.position = (IF BandDev > 0 THEN 100 ELSE 0)
        /\ (HasBands /\ ~OutsideBands) => OnTheLine(ReportedBand.position)
        /\ ReportedBand.signal = "overbought" => (FarFromMiddle /\ BandDev > 0)
        /\ ReportedBand.signal = "oversold" => (FarFromMiddle /\ BandDev < 0)

\* C14 witness: a window whose last close sits exactly on the lower band has
\* been evaluated.
C14_Witness ==
    /\ Returned("calculate_volatility")
    /\ HasBands /\ OnBand /\ BandDev < 0
    /\ ReportedBand.position = 0

\* The window of an analyze_medium_term_trend call has MediumRows rows with
\* strictly increasing closes, each row's change rate positive.
SevenRising ==
    /\ Len(call.df) = MediumRows
    /\ \A i \in 2..MediumRows : call.df[i].c > call.df[i - 1].c
    /\ \A i \in 1..MediumRows : call.df[i].cr > 0
\* The returned strength is min(100, 5 * change in percent + 5 * up_days).
StrengthCounts(up_days) ==
    LET first == call.df[1].c
        last == call.df[Len(call.df)].c
        score == Min2(100 * first, 500 * (last - first) + 5 * up_days * first)
    IN /\ ret.value.strength.k = "num"
       /\ ret.value.strength.n * first = score * ret.value.strength.d

\* C15 as claimed: for a medium-term window of 7 daily rows whose closes are
\* strictly increasing, each row's change rate positive, the trend is bullish
\* and the up-day count used for the vote and the strength score is 6.
C15_Original ==
    (Returned("analyze_medium_term_trend") /\ SevenRising) =>
        ret.value.trend = "bullish" /\ StrengthCounts(MediumRows - 1)

\* C15: for a medium-term window of 7 daily rows whose closes are strictly
\* increasing, each row's change rate positive, the trend is bullish and the
\* up-day count used for the vote and the strength score is 7, the number of
\* rows with a positive change rate.
C15_SevenUpDays ==
    (Returned("analyze_medium_term_trend") /\ SevenRising) =>
        ret.value.trend = "bullish" /\ StrengthCounts(MediumRows)

\* C15 witness: such a window has been classified with a strength below the
\* cap of 100, where the count shows.
C15_Witness ==
    /\ Returned("analyze_medium_term_trend")
    /\ SevenRising
    /\ Lt(ret.value.strength, 100)

\* The volume summed over the rows lo..hi counted from the end of the minute
\* table of a calculate_volume_change call (row 1 is the newest).
VolumeFromEnd(lo, hi) ==
    LET n == Len(call.df)
    IN SumSeq([i \in 1..n |->
                  IF n + 1 - i >= lo /\ n + 1 - i <= hi THEN call.df[i].v ELSE 0])
RecentVolume == VolumeFromEnd(1, 24)
PrecedingVolume == VolumeFromEnd(25, 48)

\* C16: calculate_volume_change returns exactly 0.0 whenever the minute table
\* has fewer than 48 rows or the sum of the volumes of rows 25..48 counted
\* from the end is not positive; otherwise it returns the relative change, in
\* percent (to two decimals), of the sum of the most recent 24 volumes
\* against the sum of the preceding 24, two disjoint and adjacent windows.
C16_VolumeChange ==
    Returned("calculate_volume_change") =>
        IF Len(call.df) < 48 \/ PrecedingVolume <= 0
        THEN ret.value = 0
        ELSE 2 * Abs(ret.value * PrecedingVolume
                       - 10000 * (RecentVolume - PrecedingVolume)) <= PrecedingVolume

\* C16 witness: a table of more than 48 rows whose two windows and older rows
\* trade different volumes has been evaluated with a change that is not 0.
C16_Witness ==
    /\ Returned("calculate_volume_change")
    /\ Len(call.df) > 48
    /\ call.df[1].v # 0
    /\ PrecedingVolume > 0
    /\ ret.value # 0

\* The crossover of the short and the medium moving average between rows
\* j-1 and j (1-based, oldest first) of an analyze_ma_crossovers call.
CrossAt(j) ==
    LET short == call.config.ma_short
        medium == call.config.ma_medium
        ps == RollingSum(call.closes, short, j - 1)
        pm == RollingSum(call.closes, medium, j - 1)
        cs == RollingSum(call.closes, short, j)
        cm == RollingSum(call.closes, medium, j)
    IN IF j < 2 \/ ps = None \/ pm = None \/ cs = None \/ cm = None THEN "none"
       ELSE IF ps[1] * medium <= pm[1] * short /\ cs[1] * medium > cm[1] * short
       THEN "golden_cross"
       ELSE IF ps[1] * medium >= pm[1] * short /\ cs[1] * medium < cm[1] * short
       THEN "death_cross"
       ELSE "none"

\* C18: for an n-row daily table, analyze_ma_crossovers examines exactly the
\* adjacent pairs among the most recent min(30, n) rows: every crossover
\* within those rows is reported with its type, every reported crossover has
\* days_ago equal to the number of rows between it and the newest row, and no
\* reported crossover has days_ago of 30 or more.
C18_RecentCrossovers ==
    Returned("analyze_ma_crossovers") =>
        LET n == Len(call.closes)
            recent == {j \in 1..n : j > n - Min2(30, n) + 1}
        IN /\ \A j \in recent :
                  CrossAt(j) # "none" =>
                      \E e \in 1..Len(ret.value) :
                          ret.value[e] = [type |-> CrossAt(j), days_ago |-> n - j]
           /\ \A e \in 1..Len(ret.value) :
                  /\ ret.value[e].days_ago < 30
                  /\ n - ret.value[e].days_ago \in recent
                  /\ CrossAt(n - ret.value[e].days_ago) = ret.value[e].type

\* The candidate levels of each side of a calculate_price_levels call, in
\* hundredths and nearest the price first: the highs above (lows below) the
\* price, with the synthetic 2% and 4% levels when these are fewer than 2.
CandidateResistances ==
    LET d == TailN(call.tables.daily, 30)
        real == Filter([i \in 1..Len(d) |-> 100 * d[i].h], 100 * call.quote.price, TRUE)
    IN SortAsc(real \o (IF Len(real) < 2
                        THEN <<102 * call.quote.price, 104 * call.quote.price>>
                        ELSE <<>>))
CandidateSupports ==
    LET d == TailN(call.tables.daily, 30)
        real == Filter([i \in 1..Len(d) |-> 100 * d[i].l], 100 * call.quote.price, FALSE)
    IN Reverse(SortAsc(real \o (IF Len(real) < 2
                                THEN <<98 * call.quote.price, 96 * call.quote.price>>
                                ELSE <<>>)))
\* The level of a reported pair that is nearer to the price.
Nearer(pair) ==
    IF Abs(pair[1] - call.quote.price) <= Abs(pair[2] - call.quote.price)
    THEN pair[1] ELSE pair[2]

\* C19: for every daily window and current price, the two resistance levels
\* reported are the two lowest of the candidate levels on that side (real
\* candidates plus any synthetic padding) in ascending order, the two support
\* levels are the two highest in descending order, and the two distances are
\* computed from the level of each side that is nearer to the current price.
C19_NearestLevels ==
    Returned("calculate_price_levels") =>
        /\ ret.value.key_resistance =
              <<RoundHalfEven(CandidateResistances[1], 100),
                RoundHalfEven(CandidateResistances[2], 100)>>
        /\ ret.value.key_support =
              <<RoundHalfEven(CandidateSupports[1], 100),
                RoundHalfEven(CandidateSupports[2], 100)>>
        /\ ret.value.distance_to_resistance_pct =
              RoundHalfEven((Nearer(ret.value.key_resistance) - call.quote.price) * 10000,
                            call.quote.price)
        /\ ret.value.distance_to_support_pct =
              RoundHalfEven((call.quote.price - Nearer(ret.value.key_support)) * 10000,
                            call.quote.price)

(***************************************************************************)
(* Properties of the indicators, continued (specification SpecInd).        *)
(***************************************************************************)
\* C12: for every daily table with fewer than rsi_period rows,
\* calculate_momentum returns RSI value null with zone and trend neutral,
\* MACD line, signal and histogram null with trend neutral, and Stochastic
\* %K and %D null with trend and zone neutral.
C12_InsufficientIsNull ==
    (MomentumDone /\ DailyRows < config["rsi_period"]) =>
        /\ part["momentum"].rsi =
              [value |-> None, zone |-> "neutral", trend |-> "neutral"]
        /\ part["momentum"].macd =
              [line |-> None, signal |-> None, histogram |-> None, trend |-> "neutral"]
        /\ part["momentum"].stochastic =
              [k |-> None, d |-> None, trend |-> "neutral", zone |-> "neutral"]

(***************************************************************************)
(* Properties of the run, continued (specification Spec).                  *)
(***************************************************************************)
\* The four fetches succeeded and the three candle lists are empty.
EmptyInput == AllFetched /\ \A g \in Grans : raw[g] = <<>>

\* C17: when the quote fetch succeeds and all three candle fetches return
\* empty lists, analyze returns a Report without raising, in which all three
\* trends are neutral with trend strength 50 and duration 1, 24h volume
\* change and 30-day volatility are 0.0, the price levels are the synthetic
\* 2%/4% levels around the quote price, and the technical signals are the
\* empty defaults.
C17_EmptyInput ==
    EmptyInput =>
        /\ pc # "raised"
        /\ pc = "returned" =>
              /\ report.trend_analysis =
                    [short_term |-> "neutral", medium_term |-> "neutral",
                     long_term |-> "neutral", trend_strength |-> 50,
                     trend_duration_days |-> 1]
              /\ report.market_info.volume_change_pct = 0
              /\ report.market_info.volatility = <<>>
              /\ report.price_levels.key_resistance =
                    <<RoundHalfEven(quote.price * 102, 100),
                      RoundHalfEven(quote.price * 104, 100)>>
              /\ report.price_levels.key_support =
                    <<RoundHalfEven(quote.price * 98, 100),
                      RoundHalfEven(quote.price * 96, 100)>>
              /\ report.technical_signals = empty_technical_signals

\* C17 witness: a Report has been returned for a quote of 50 and three empty
\* candle lists.
C17_Witness == EmptyInput /\ pc = "returned" /\ quote.price = 50

\* The three horizon results behind the Report of the run.
ShortTerm == analyze_short_term_trend(TailN(table["minute"], ShortRows))
MediumTerm == analyze_medium_term_trend(TailN(table["daily"], MediumRows))
LongTerm == analyze_long_term_trend(TailN(table["weekly"], LongRows))
Horizons == {ShortTerm, MediumTerm, LongTerm}
InHundred(x) == x.k = "num" /\ x.n >= 0 /\ x.n <= 100 * x.d

\* A horizon window of at least 2 rows that starts and ends at a price of 0:
\* its price change is 0/0.
ZeroSpan(rows, start) == Len(rows) >= 2 /\ start = 0 /\ rows[Len(rows)].c = 0
UndefinedChange ==
    LET m == TailN(table["minute"], ShortRows)
        d == TailN(table["daily"], MediumRows)
        w == TailN(table["weekly"], LongRows)
    IN \/ m # <<>> /\ ZeroSpan(m, m[1].o)
       \/ d # <<>> /\ ZeroSpan(d, d[1].c)
       \/ w # <<>> /\ ZeroSpan(w, w[1].c)

\* round(min(100, 0.2*short + 0.3*medium + 0.5*long + bonus)), the bonus
\* being 15 when the three trends are equal and not neutral, 8 when medium and
\* long are equal and not neutral but short differs, and 0 otherwise.
CombinedStrength ==
    LET s == ShortTerm.strength
        m == MediumTerm.strength
        l == LongTerm.strength
        den == 10 * s.d * m.d * l.d
        num == 2 * s.n * m.d * l.d + 3 * m.n * s.d * l.d + 5 * l.n * s.d * m.d
        agree == MediumTerm.trend = LongTerm.trend /\ MediumTerm.trend # "neutral"
        bonus == IF agree /\ ShortTerm.trend = MediumTerm.trend THEN 15
                 ELSE IF agree THEN 8 ELSE 0
    IN RoundHalfEven(Min2(num + bonus * den, 100 * den), den)

WithLastMove(j) ==
    LET n == Len(call.df)
    IN IF call.df[n].c > call.df[n - 1].c
       THEN call.df[j + 1].c > call.df[j].c
       ELSE call.df[j + 1].c < call.df[j].c

\* C21: calculate_trend_duration returns the length of the longest run of
\* consecutive day-over-day moves that ends at the most recent day and all
\* have the direction of the most recent move; it returns 1 when the table
\* has fewer than 2 rows or the last two closes are equal, and for an n-row
\* table (n >= 2) the result is always between 1 and n-1.
C21_TrendDuration ==
    Returned("calculate_trend_duration") =>
        LET n == Len(call.df)
            r == ret.value
        IN IF n < 2 THEN r = 1
           ELSE IF call.df[n].c = call.df[n - 1].c THEN r = 1
           ELSE /\ r \in 1..(n - 1)
                /\ \A j \in (n - r)..(n - 1) : WithLastMove(j)
                /\ r < n - 1 => ~WithLastMove(n - r - 1)

\* C21 witness: a run of two moves that is broken before the start of the
\* table has been counted.
C21_Witness ==
    /\ Returned("calculate_trend_duration")
    /\ Len(call.df) >= 4
    /\ ret.value = 2

\* The last rows of the daily window of a calculate_price_levels call, which
\* identify_last_tested_level scans, and the rows of it whose high touches a
\* reported resistance level or whose low touches a reported support level
\* (within 0.5% of the level).
TestedWindow == TailN(TailN(call.tables.daily, LevelRows), TestedRows)
Within(level, x) == level > 0 /\ 1000 * Abs(level - x) < 5 * level
TouchesResistance(i) ==
    \E j \in 1..2 : Within(ret.value.key_resistance[j], TestedWindow[i].h)
TouchesSupport(i) ==
    \E j \in 1..2 : Within(ret.value.key_support[j], TestedWindow[i].l)
Touching == {i \in 1..Len(TestedWindow) : TouchesResistance(i) \/ TouchesSupport(i)}
LastCloseHigher ==
    LET n == Len(TestedWindow)
    IN TestedWindow[n].c > TestedWindow[n - 1].c

\* C22 as claimed: identify_last_tested_level over the last 5 daily rows
\* reports resistance when only resistance levels are touched, support when
\* only support levels are touched, and resistance when one row touches both;
\* when no row touches any level it reports resistance if the last close is
\* higher than the close before it and support otherwise.
C22_Original ==
    Returned("calculate_price_levels") =>
        LET rows == 1..Len(TestedWindow)
            tested == ret.value.last_tested
        IN /\ ((\E i \in rows : TouchesResistance(i)) /\ ~\E i \in rows : TouchesSupport(i))
                 => tested = "resistance"
           /\ ((\E i \in rows : TouchesSupport(i)) /\ ~\E i \in rows : TouchesResistance(i))
                 => tested = "support"
           /\ (\E i \in rows : TouchesResistance(i) /\ TouchesSupport(i))
                 => tested = "resistance"
           /\ (Touching = {} /\ Len(TestedWindow) >= 2)
                 => tested = (IF LastCloseHigher THEN "resistance" ELSE "support")

\* C22: identify_last_tested_level over the last 5 daily rows reports the
\* side touched by the oldest row that touches a level, resistance when that
\* row touches both; when no row touches any level it reports resistance if
\* there are fewer than 2 rows or the last close is higher than the close
\* before it, and support otherwise.
C22_FirstTouchDecides ==
    Returned("calculate_price_levels") =>
        ret.value.last_tested =
            (IF Touching # {}
             THEN (IF TouchesResistance(CHOOSE i \in Touching : \A j \in Touching : i <= j)
                   THEN "resistance" ELSE "support")
             ELSE IF Len(TestedWindow) < 2 THEN "resistance"
             ELSE IF LastCloseHigher THEN "resistance" ELSE "support")

\* C22 witness: an older row touches only a support level and a newer row
\* touches a level of each side.
C22_Witness ==
    /\ Returned("calculate_price_levels")
    /\ \E i, j \in 1..Len(TestedWindow) :
          /\ i < j
          /\ TouchesSupport(i) /\ ~TouchesResistance(i)
          /\ TouchesSupport(j) /\ TouchesResistance(j)
    /\ ret.value.last_tested = "support"

(***************************************************************************)
(* Properties of the run, continued (specification Spec).                  *)
(***************************************************************************)
\* Every branch has returned, and the Report holds under each key the value
\* that the branch of that key returned.
AssembledFromBranches(r) ==
    /\ \A b \in Branches : bpc[b] = "done" /\ result[b] # NoResult
    /\ DOMAIN r = Branches
    /\ \A b \in Branches : r[b] = result[b]

\* C23: the Report is assembled only after all four analysis branches have
\* finished, and whatever the order in which they finish, its market_info,
\* trend_analysis, price_levels and technical_signals entries hold the
\* results of the Market Summary, Trend, Level and Indicator branches
\* respectively: the step that sets the Report is taken with every branch
\* done, and from then on the Report holds each branch's result under the
\* branch's key.
C23_AssembledAfterAll ==
    /\ [](report # NoReport => AssembledFromBranches(report))
    /\ [][report' # report => AssembledFromBranches(report')]_vars

\* C23 witness: a Report has been returned whose four sub-records are
\* pairwise different and whose Indicator branch ran all its steps.
C23_Witness ==
    /\ pc = "returned"
    /\ \A a, b \in Branches : a # b => report[a] # report[b]
    /\ report.technical_signals # empty_technical_signals
    /\ report.market_info.current_price > 0

(***************************************************************************)
(* Properties of the Indicator branch, continued (specification SpecInd).  *)
(***************************************************************************)
\* No column has been assigned twice on the Indicator branch's copy.
WrittenOnce ==
    \A i, j \in 1..Len(df.written) : i # j => df.written[i] # df.written[j]

\* C24: throughout phase 3 the three tables, the quote and the config of the
\* shared MarketData are left unchanged by every step of every analysis
\* branch; derived columns are written only to the Indicator branch's
\* private copy of the daily table, and each derived column is written at
\* most once per run.
C24_SharedDataUntouched ==
    /\ [][pc = "gather" => UNCHANGED <<table, quote, config>>]_vars
    /\ [](df.rows \in {<<>>, table["daily"]})
    /\ []WrittenOnce

\* C25: two runs of analyze that receive identical fetch results and an
\* identical config produce identical Reports, including when a branch hits
\* a computation error and degrades to its default sub-record: the Report
\* returned is the only Report a run on the same tables, quote and config
\* can return.
C25_Deterministic ==
    pc = "returned" => SequentialReports(table, quote, config) = {report}

(***************************************************************************)
(* Properties of the library functions, continued (specification SpecFn).  *)
(***************************************************************************)
TrendFns ==
    {"analyze_short_term_trend", "analyze_medium_term_trend", "analyze_long_term_trend"}

\* The first price of the window of a trend call (the first open of a minute
\* window, the first close of a daily or weekly one) and the net change to
\* the last close.
FirstPrice ==
    IF call.fn = "analyze_short_term_trend" THEN call.df[1].o ELSE call.df[1].c
NetChange == call.df[Len(call.df)].c - FirstPrice

\* C26: for each horizon (minute, daily, weekly) and every window of at
\* least 2 rows with a positive first price, a bullish classification implies
\* that the net window price change is strictly positive and a bearish one
\* that it is strictly negative; a window with zero net price change is
\* always classified neutral.
C26_TrendSign ==
    (/\ ret # NoCall
     /\ ret.fn \in TrendFns
     /\ Len(call.df) >= 2
     /\ FirstPrice > 0) =>
        /\ ret.value.trend = "bullish" => NetChange > 0
        /\ ret.value.trend = "bearish" => NetChange < 0
        /\ NetChange = 0 => ret.value.trend = "neutral"

\* C26 witness: a minute window with three rising candles and no net change
\* has been classified neutral.
C26_Witness ==
    /\ Returned("analyze_short_term_trend")
    /\ Cardinality({i \in 1..Len(call.df) : call.df[i].c > call.df[i].o}) >= 3
    /\ FirstPrice > 0
    /\ NetChange = 0
    /\ ret.value.trend = "neutral"

====
